---- MODULE Spec2Model ----
(***************************************************************************)
(* A model of the (de)serialization dispatch engine of pydrobert-param:    *)
(* the per-kind converters, the flat dispatch functions                    *)
(* _serialize_to_dict_flat / _deserialize_from_dict_flat and the           *)
(* hierarchical walkers serialize_to_dict / deserialize_from_dict of       *)
(* src/src/pydrobert/param/_classic_serialization.py.                      *)
(***************************************************************************)
EXTENDS Integers, Sequences, FiniteSets, TLC

(***************************************************************************)
(* Bounds of the explored inputs.                                          *)
(***************************************************************************)
\* longest flat dictionary handed to a flat deserialization
MaxItems == 3
\* longest `only` collection handed to a flat serialization
MaxOnly == 2
\* longest flat dictionary at a leaf of a hierarchical data tree
MaxLeafItems == 1

(***************************************************************************)
(* Python values.  Every value is a record of the same four fields so that *)
(* any two values can be compared: t is the Python type, n the numeric     *)
(* payload, s the string payload, e the elements (list, tuple) or the      *)
(* items (dict, in insertion order).  A float PyFloat(k) denotes k.0.      *)
(***************************************************************************)
Val(t, n, s, e) == [t |-> t, n |-> n, s |-> s, e |-> e]
None == Val("none", 0, "", <<>>)
PyInt(k) == Val("int", k, "", <<>>)
PyFloat(k) == Val("float", k, "", <<>>)
PyBool(b) == Val("bool", IF b THEN 1 ELSE 0, "", <<>>)
PyStr(x) == Val("str", 0, x, <<>>)
PyList(es) == Val("list", 0, "", es)
PyTuple(es) == Val("tuple", 0, "", es)
\* a dictionary: e is the sequence of its items, in insertion order
PyDict(items) == Val("dict", 0, "", items)
\* an item whose key is the string k
Item(k, v) == Val("item", 0, k, <<v>>)
\* an item whose key is the type object (attribute kind) k
KItem(k, v) == Val("kitem", 0, k, <<v>>)
\* a reference to the param.Parameterized instance with identifier id
Obj(id) == Val("obj", id, "", <<>>)
\* a converter instance (serializer or deserializer) of class c
Conv(c) == Val("conv", 0, c, <<>>)

IsNone(v) == v.t = "none"
IsDict(v) == v.t = "dict"
IsParameterized(v) == v.t = "obj"
IsNumber(v) == v.t \in {"int", "bool", "float"}

(***************************************************************************)
(* dict operations                                                         *)
(***************************************************************************)
\* position of string key k among the items of d, 0 when absent
IndexOf(d, k) ==
    IF \E i \in 1..Len(d.e) : d.e[i].t = "item" /\ d.e[i].s = k
    THEN CHOOSE i \in 1..Len(d.e) : d.e[i].t = "item" /\ d.e[i].s = k
    ELSE 0
\* position of type key k among the items of d, 0 when absent
IndexOfType(d, k) ==
    IF \E i \in 1..Len(d.e) : d.e[i].t = "kitem" /\ d.e[i].s = k
    THEN CHOOSE i \in 1..Len(d.e) : d.e[i].t = "kitem" /\ d.e[i].s = k
    ELSE 0
\* k in d
Has(d, k) == IndexOf(d, k) # 0
HasType(d, k) == IndexOfType(d, k) # 0
\* d.get(k, default)
Get(d, k, default) == IF Has(d, k) THEN d.e[IndexOf(d, k)].e[1] ELSE default
GetType(d, k, default) ==
    IF HasType(d, k) THEN d.e[IndexOfType(d, k)].e[1] ELSE default
\* the string keys of d, in iteration order
Keys(d) == [i \in 1..Len(d.e) |-> d.e[i].s]
\* d[k] = v : replaces in place, or appends
SetItem(d, item) ==
    LET i == IF item.t = "item" THEN IndexOf(d, item.s)
             ELSE IndexOfType(d, item.s)
    IN  IF i = 0 THEN PyDict(Append(d.e, item))
        ELSE PyDict([d.e EXCEPT ![i] = item])
\* d.update(d2)
Update(d, d2) ==
    LET RECURSIVE UpdateFrom(_, _)
        UpdateFrom(acc, i) ==
            IF i > Len(d2.e) THEN acc
            ELSE UpdateFrom(SetItem(acc, d2.e[i]), i + 1)
    IN  UpdateFrom(d, 1)
\* the sub-dictionary reached from tree by following path, None if absent
RECURSIVE GetAt(_, _)
GetAt(tree, path) ==
    IF path = <<>> THEN tree
    ELSE IF IsDict(tree) /\ Has(tree, Head(path))
         THEN GetAt(Get(tree, Head(path), None), Tail(path))
         ELSE None
\* tree with the value at path replaced by v (the path's prefix exists)
RECURSIVE SetAt(_, _, _)
SetAt(tree, path, v) ==
    IF path = <<>> THEN v
    ELSE SetItem(tree,
                 Item(Head(path),
                      SetAt(Get(tree, Head(path), PyDict(<<>>)), Tail(path), v)))

(***************************************************************************)
(* Python built-ins used by the converters.  A call that can raise returns *)
(* a record [exc, val]: exc is "" or the name of the exception type.       *)
(***************************************************************************)
Ok(v) == [exc |-> "", val |-> v]
Raise(x) == [exc |-> x, val |-> None]

\* a == b
RECURSIVE PyEq(_, _)
PyEq(a, b) ==
    IF IsNumber(a) /\ IsNumber(b) THEN a.n = b.n
    ELSE IF a.t # b.t THEN FALSE
    ELSE IF a.t \in {"list", "tuple"}
         THEN /\ Len(a.e) = Len(b.e)
              /\ \A i \in 1..Len(a.e) : PyEq(a.e[i], b.e[i])
    ELSE a = b

\* the characters of the strings that occur as raw values
Chars(s) ==
    CASE s = "" -> <<>>
      [] s = "3" -> <<"3">>
      [] s = "12" -> <<"1", "2">>
      [] s = "None" -> <<"N", "o", "n", "e">>
      [] s = "none" -> <<"n", "o", "n", "e">>
      [] s = "true" -> <<"t", "r", "u", "e">>
      [] s = "abc" -> <<"a", "b", "c">>
      [] OTHER -> <<s>>

Digits == <<"0", "1", "2", "3", "4", "5", "6", "7", "8", "9">>
RECURSIVE DigitsVal(_, _)
DigitsVal(cs, acc) ==
    LET DigitVal(c) == (CHOOSE i \in 1..10 : Digits[i] = c) - 1
    IN
    IF cs = <<>> THEN acc ELSE DigitsVal(Tail(cs), 10 * acc + DigitVal(Head(cs)))
\* a string of decimal digits is what int() and float() parse
IsNumeral(s) ==
    LET IsDigit(c) == \E i \in 1..10 : Digits[i] = c
    IN
    Chars(s) # <<>> /\ \A i \in 1..Len(Chars(s)) : IsDigit(Chars(s)[i])

RECURSIVE NatStr(_)
NatStr(n) ==
    IF n < 10 THEN Digits[n + 1] ELSE NatStr(n \div 10) \o Digits[(n % 10) + 1]

\* isinstance(v, class_)
IsInstance(v, class_) ==
    CASE class_ = "int" -> v.t \in {"int", "bool"}
      [] class_ = "float" -> v.t = "float"
      [] class_ = "str" -> v.t = "str"
      [] class_ = "bool" -> v.t = "bool"
      [] OTHER -> FALSE

\* float(v)
FloatOf(v) ==
    CASE v.t \in {"int", "bool", "float"} -> Ok(PyFloat(v.n))
      [] v.t = "str" -> IF IsNumeral(v.s) THEN Ok(PyFloat(DigitsVal(Chars(v.s), 0)))
                        ELSE Raise("ValueError")
      [] OTHER -> Raise("TypeError")
\* str(v)
RECURSIVE StrOf(_)
StrOf(v) ==
    LET JoinStr(es) ==
            IF Len(es) = 0 THEN ""
            ELSE LET F[k \in 1..Len(es)] ==
                         IF k = 1 THEN StrOf(es[1]) ELSE F[k - 1] \o ", " \o StrOf(es[k])
                 IN  F[Len(es)]
        IntStr(n) == IF n < 0 THEN "-" \o NatStr(-n) ELSE NatStr(n)
    IN
    CASE v.t = "str" -> v.s
      [] v.t = "none" -> "None"
      [] v.t = "int" -> IntStr(v.n)
      [] v.t = "float" -> IntStr(v.n) \o ".0"
      [] v.t = "bool" -> IF v.n = 1 THEN "True" ELSE "False"
      [] v.t = "list" -> "[" \o JoinStr(v.e) \o "]"
      [] v.t = "tuple" -> "(" \o JoinStr(v.e) \o ")"
      [] OTHER -> "<" \o v.t \o " " \o v.s \o ">"
\* the cast class_(v) of _CastDeserializer
Cast(class_, v) ==
    \* int(x)
    LET IntOf(x) ==
            CASE x.t \in {"int", "bool", "float"} -> Ok(PyInt(x.n))
              [] x.t = "str" -> IF IsNumeral(x.s) THEN Ok(PyInt(DigitsVal(Chars(x.s), 0)))
                                ELSE Raise("ValueError")
              [] OTHER -> Raise("TypeError")
    IN
    CASE class_ = "int" -> IntOf(v)
      [] class_ = "float" -> FloatOf(v)
      [] OTHER -> Ok(PyStr(StrOf(v)))
\* iter(v): the elements a for loop over v visits; val is a list
Iter(v) ==
    CASE v.t \in {"list", "tuple"} -> Ok(PyList(v.e))
      [] v.t = "str" -> Ok(PyList([i \in 1..Len(Chars(v.s)) |-> PyStr(Chars(v.s)[i])]))
      [] v.t = "dict" -> Ok(PyList([i \in 1..Len(v.e) |-> PyStr(v.e[i].s)]))
      [] OTHER -> Raise("TypeError")

\* json's encoder, as json.dump drives it: chunks are the strings it yields
\* for o in order, up to the TypeError (exc) of a value json has no encoding
\* for.  indent is None or an int; with an indent the item separator is ","
\* and every item starts a line
RECURSIVE _iterencode(_, _, _)
_iterencode(o, indent, level) ==
    LET NewlineIndent(depth) ==
            LET Spaces[k \in 0..(indent.n * depth)] ==
                    IF k = 0 THEN "" ELSE Spaces[k - 1] \o " "
            IN  "\n" \o Spaces[indent.n * depth]
        IsAtom(v) == v.t \in {"str", "none", "bool", "int", "float"}
        Atom(v) ==
            CASE v.t = "str" -> "\"" \o v.s \o "\""
              [] v.t = "none" -> "null"
              [] v.t = "bool" -> IF v.n = 1 THEN "true" ELSE "false"
              [] OTHER -> StrOf(v)
        Open == IF IsNone(indent) THEN "" ELSE NewlineIndent(level + 1)
        Separator == IF IsNone(indent) THEN ", " ELSE "," \o Open
        Close == IF IsNone(indent) THEN <<>> ELSE <<NewlineIndent(level)>>
        Then(st, buf, r) == [chunks |-> st.chunks \o buf \o r.chunks, exc |-> r.exc]
        Value(st, buf, v) ==
            IF IsAtom(v) THEN [chunks |-> st.chunks \o buf \o <<Atom(v)>>, exc |-> ""]
            ELSE Then(st, buf, _iterencode(v, indent, level + 1))
        \* _iterencode_list: the bracket or the separator goes out in one
        \* string with the atom that follows it
        Element(st, buf, v) ==
            IF IsAtom(v) THEN [chunks |-> Append(st.chunks, buf \o Atom(v)), exc |-> ""]
            ELSE Then(st, <<buf>>, _iterencode(v, indent, level + 1))
        ListFrom[k \in 0..Len(o.e)] ==
            IF k = 0 THEN [chunks |-> <<>>, exc |-> ""]
            ELSE IF ListFrom[k - 1].exc # "" THEN ListFrom[k - 1]
            ELSE Element(ListFrom[k - 1], IF k = 1 THEN "[" \o Open ELSE Separator, o.e[k])
        \* _iterencode_dict: the keys are strings
        DictFrom[k \in 0..Len(o.e)] ==
            IF k = 0
            THEN [chunks |-> IF IsNone(indent) THEN <<"{">> ELSE <<"{", Open>>, exc |-> ""]
            ELSE IF DictFrom[k - 1].exc # "" THEN DictFrom[k - 1]
            ELSE Value(DictFrom[k - 1],
                       (IF k = 1 THEN <<>> ELSE <<Separator>>)
                           \o <<"\"" \o o.e[k].s \o "\"", ": ">>,
                       o.e[k].e[1])
        Closed(st, bracket) ==
            IF st.exc # "" THEN st
            ELSE [chunks |-> st.chunks \o Close \o <<bracket>>, exc |-> ""]
    IN  CASE IsAtom(o) -> [chunks |-> <<Atom(o)>>, exc |-> ""]
          [] o.t \in {"list", "tuple"} ->
                 IF o.e = <<>> THEN [chunks |-> <<"[]">>, exc |-> ""]
                 ELSE Closed(ListFrom[Len(o.e)], "]")
          [] o.t = "dict" ->
                 IF o.e = <<>> THEN [chunks |-> <<"{}">>, exc |-> ""]
                 ELSE Closed(DictFrom[Len(o.e)], "}")
          [] OTHER -> [chunks |-> <<>>, exc |-> "TypeError"]

(***************************************************************************)
(* The typed object.  Every instance is of one class, a cut of the         *)
(* BigDumbParams class of the tests: the declared attributes, their kinds, *)
(* their defaults and the objects of the two selectors.                    *)
(***************************************************************************)
Params ==
    {"name", "action", "boolean", "dynamic", "integer", "list_selector", "number",
     "numeric_tuple", "object_selector", "string"}
\* type(parameterized.param.params()[name])
KindOf(name) ==
    CASE name = "action" -> "Action"
      [] name = "boolean" -> "Boolean"
      [] name = "dynamic" -> "Dynamic"
      [] name = "integer" -> "Integer"
      [] name = "list_selector" -> "ListSelector"
      [] name = "number" -> "Number"
      [] name = "numeric_tuple" -> "NumericTuple"
      [] name = "object_selector" -> "ObjectSelector"
      [] OTHER -> "String"
\* the value of every attribute of a fresh instance called nm
Defaults(nm) ==
    \* a function object; the model never calls it
    LET Func(f) == Val("function", 0, f, <<>>)
    IN
    [name \in Params |->
        CASE name = "name" -> PyStr(nm)
          [] name = "action" -> Func("default_action")
          [] name = "boolean" -> PyBool(TRUE)
          \* a Dynamic attribute holding a callable gives, when read, what the
          \* callable returns: default_action() is 1
          [] name = "dynamic" -> PyInt(1)
          [] name = "integer" -> PyInt(10)
          [] name = "list_selector" -> PyList(<<PyInt(2), PyInt(2)>>)
          [] name = "number" -> PyFloat(-10)
          [] name = "numeric_tuple" -> PyTuple(<<PyFloat(5), PyFloat(10)>>)
          [] name = "object_selector" -> PyBool(FALSE)
          [] OTHER -> PyStr("foo")]
\* p.get_range(): the named objects of a selector, a dictionary name -> object
GetRange(name) ==
    CASE name = "list_selector" ->
             PyDict(<<Item("1", PyInt(1)), Item("2", PyInt(2)), Item("3", PyInt(3))>>)
      [] name = "object_selector" ->
             PyDict(<<Item("False", PyBool(FALSE)), Item("True", PyInt(1))>>)
      [] OTHER -> PyDict(<<>>)
\* p.allow_None, given the allow_None the instance's class was declared with;
\* a list selector cannot be None, only empty
AllowNone(an, name) == an /\ name \notin {"list_selector", "name"}
\* parameterized.param.set_param(name, v) accepts v; it raises ValueError
\* otherwise
Validates(an, name, v) ==
    \* x in p.objects
    LET InObjects(x) ==
            \E i \in 1..Len(GetRange(name).e) : PyEq(GetRange(name).e[i].e[1], x)
    IN
    IF IsNone(v) THEN AllowNone(an, name) \/ KindOf(name) = "Dynamic"
    ELSE CASE KindOf(name) = "Action" -> v.t = "function"
           [] KindOf(name) = "Boolean" -> v.t = "bool"
           [] KindOf(name) = "Integer" -> v.t \in {"int", "bool"}
           [] KindOf(name) = "Number" -> IsNumber(v)
           [] KindOf(name) = "String" -> v.t = "str"
           [] KindOf(name) = "NumericTuple" ->
                  /\ v.t = "tuple"
                  /\ Len(v.e) = Len(Defaults("")[name].e)
                  /\ \A i \in 1..Len(v.e) : IsNumber(v.e[i])
           [] KindOf(name) = "ListSelector" ->
                  /\ v.t = "list"
                  /\ \A i \in 1..Len(v.e) : InObjects(v.e[i])
           [] KindOf(name) = "ObjectSelector" -> InObjects(v)
           [] OTHER -> TRUE

(***************************************************************************)
(* Deserializers.  deserialize(name, block, parameterized) returns a       *)
(* record: exc the exception type that escapes ("" if none), set whether   *)
(* the attribute was assigned, val the value it was last assigned.         *)
(***************************************************************************)
Assigned(v) == [exc |-> "", set |-> TRUE, val |-> v]
Failed(x) == [exc |-> x, set |-> FALSE, val |-> None]
\* set_param(name, v) inside `try: ... except ValueError: raise
\* ParamConfigTypeError`
SetOrConfigError(an, name, v) ==
    IF Validates(an, name, v) THEN Assigned(v) ELSE Failed("ParamConfigTypeError")

\* ParamConfigDeserializer.check_if_allow_none_and_set
check_if_allow_none_and_set(an, name, block) == IsNone(block) /\ AllowNone(an, name)

DefaultBooleanDeserializer(an, name, block) ==
    LET RECURSIVE Hashable(_)
        \* hash(v) succeeds (lists and dictionaries are unhashable)
        Hashable(v) ==
            CASE v.t \in {"list", "dict"} -> FALSE
              [] v.t = "tuple" -> \A i \in 1..Len(v.e) : Hashable(v.e[i])
              [] OTHER -> TRUE
        TRUE_VALUES == {"True", "true", "t", "on", "TRUE", "T", "ON", "yes", "YES", "1"}
        FALSE_VALUES == {"False", "false", "f", "off", "FALSE", "F", "OFF", "no", "NO", "0"}
        \* block in TRUE_VALUES, for a hashable block: the set holds strings and 1
        InTrueValues ==
            \/ block.t = "str" /\ block.s \in TRUE_VALUES
            \/ IsNumber(block) /\ block.n = 1
        InFalseValues ==
            \/ block.t = "str" /\ block.s \in FALSE_VALUES
            \/ IsNumber(block) /\ block.n = 0
    IN
    IF check_if_allow_none_and_set(an, name, block) THEN Assigned(None)
    ELSE IF ~Hashable(block) THEN Failed("TypeError")
    ELSE LET b == IF InTrueValues THEN PyBool(TRUE)
                  ELSE IF InFalseValues THEN PyBool(FALSE)
                  ELSE block
         IN  IF IsInstance(b, "bool") THEN
                 (IF Validates(an, name, b) THEN Assigned(b) ELSE Failed("ValueError"))
             ELSE Failed("ParamConfigTypeError")

\* _CastDeserializer.deserialize with class_ the class of the subclass
CastDeserializer(class_, an, name, block) ==
    IF check_if_allow_none_and_set(an, name, block) THEN Assigned(None)
    ELSE IF IsInstance(block, class_) THEN SetOrConfigError(an, name, block)
    ELSE LET SetCast(c) ==
                 IF c.exc = "ValueError" THEN Failed("ParamConfigTypeError")
                 ELSE IF c.exc # "" THEN Failed(c.exc)
                 ELSE SetOrConfigError(an, name, c.val)
         IN  SetCast(Cast(class_, block))

\* tuple(float(x) for x in block): the first exception raised, or the tuple
RECURSIVE FloatEach(_, _, _)
FloatEach(es, i, acc) ==
    IF i > Len(es) THEN Ok(PyTuple(acc))
    ELSE LET Collect(f) == IF f.exc # "" THEN Raise(f.exc)
                           ELSE FloatEach(es, i + 1, Append(acc, f.val))
         IN  Collect(FloatOf(es[i]))
DefaultNumericTupleDeserializer(an, name, block) ==
    IF check_if_allow_none_and_set(an, name, block) THEN Assigned(None)
    ELSE LET Floats(it) ==
                 IF it.exc # "" THEN Raise(it.exc) ELSE FloatEach(it.val.e, 1, <<>>)
             SetTuple(tp) ==
                 IF tp.exc = "ValueError" THEN Failed("ParamConfigTypeError")
                 ELSE IF tp.exc # "" THEN Failed(tp.exc)
                 ELSE SetOrConfigError(an, name, tp.val)
         IN  SetTuple(Floats(Iter(block)))

_find_object_in_object_selector(an, name, block) ==
    \* _find_object_in_object_selector: val is the object returned; when no
    \* object is found by value or by name the attribute is assigned block (set,
    \* setval) and the function falls off its end, returning None
    LET FoundNothing ==
            IF Validates(an, name, block)
            THEN [exc |-> "", val |-> None, set |-> TRUE, setval |-> block]
            ELSE [exc |-> "ParamConfigTypeError", val |-> None, set |-> FALSE, setval |-> None]
        Hits(named_objs) ==
            {i \in 1..Len(named_objs.e) : PyEq(named_objs.e[i].e[1], block)}
        Find(named_objs, hits) ==
            IF hits # {}
            THEN [exc |-> "",
                  val |-> named_objs.e[CHOOSE i \in hits : \A j \in hits : i <= j].e[1],
                  set |-> FALSE, setval |-> None]
            ELSE IF Has(named_objs, StrOf(block))
            THEN [exc |-> "", val |-> Get(named_objs, StrOf(block), None),
                  set |-> FALSE, setval |-> None]
            ELSE FoundNothing
        FindIn(named_objs) == Find(named_objs, Hits(named_objs))
    IN  FindIn(GetRange(name))

DefaultObjectSelectorDeserializer(an, name, block) ==
    IF check_if_allow_none_and_set(an, name, block) THEN Assigned(None)
    ELSE LET SetFound(f) ==
                 IF f.exc # "" THEN Failed(f.exc)
                 ELSE IF Validates(an, name, f.val) THEN Assigned(f.val)
                 ELSE [exc |-> "ValueError", set |-> f.set, val |-> f.setval]
         IN  SetFound(_find_object_in_object_selector(an, name, block))

\* [_find_object_in_object_selector(name, x, parameterized) for x in block]:
\* the list, the first exception, and the assignment made on the way
RECURSIVE FindEach(_, _, _, _, _)
FindEach(an, name, es, i, st) ==
    IF i > Len(es) THEN st
    ELSE LET Found(f) == [exc |-> f.exc, val |-> Append(st.val, f.val),
                          set |-> st.set \/ f.set,
                          setval |-> IF f.set THEN f.setval ELSE st.setval]
             Continue(st2) ==
                 IF st2.exc # "" THEN st2 ELSE FindEach(an, name, es, i + 1, st2)
         IN  Continue(Found(_find_object_in_object_selector(an, name, es[i])))
DefaultListSelectorDeserializer(an, name, block) ==
    LET SetList(fs) ==
            IF fs.exc # ""
            THEN [exc |-> "ParamConfigTypeError", set |-> fs.set, val |-> fs.setval]
            ELSE IF Validates(an, name, PyList(fs.val)) THEN Assigned(PyList(fs.val))
            ELSE [exc |-> "ValueError", set |-> fs.set, val |-> fs.setval]
        FindAll(it) ==
            IF it.exc # "" THEN Failed("ParamConfigTypeError")
            ELSE SetList(FindEach(an, name, it.val.e, 1,
                             [exc |-> "", val |-> <<>>, set |-> FALSE, setval |-> None]))
    IN  FindAll(Iter(block))

\* a deserializer class supplied by the caller: it assigns a value that
\* names the class and wraps the block it was given
CustomValue(class_, block) == Val("custom", 0, class_, <<block>>)

DEFAULT_DESERIALIZER_DICT ==
    PyDict(<<KItem("Boolean", Conv("DefaultBooleanDeserializer")),
             KItem("Integer", Conv("DefaultIntegerDeserializer")),
             KItem("ListSelector", Conv("DefaultListSelectorDeserializer")),
             KItem("Number", Conv("DefaultNumberDeserializer")),
             KItem("NumericTuple", Conv("DefaultNumericTupleDeserializer")),
             KItem("ObjectSelector", Conv("DefaultObjectSelectorDeserializer")),
             KItem("String", Conv("DefaultStringDeserializer"))>>)
DEFAULT_BACKUP_DESERIALIZER == Conv("DefaultDeserializer")

\* deserializer.deserialize(name, block, parameterized)
Deserialize(deserializer, an, name, block) ==
    CASE deserializer.s = "DefaultBooleanDeserializer" ->
             DefaultBooleanDeserializer(an, name, block)
      [] deserializer.s = "DefaultIntegerDeserializer" ->
             CastDeserializer("int", an, name, block)
      [] deserializer.s = "DefaultNumberDeserializer" ->
             CastDeserializer("float", an, name, block)
      [] deserializer.s = "DefaultStringDeserializer" ->
             CastDeserializer("str", an, name, block)
      [] deserializer.s = "DefaultNumericTupleDeserializer" ->
             DefaultNumericTupleDeserializer(an, name, block)
      [] deserializer.s = "DefaultObjectSelectorDeserializer" ->
             DefaultObjectSelectorDeserializer(an, name, block)
      [] deserializer.s = "DefaultListSelectorDeserializer" ->
             DefaultListSelectorDeserializer(an, name, block)
      [] deserializer.s = "DefaultDeserializer" ->
             IF check_if_allow_none_and_set(an, name, block) THEN Assigned(None)
             ELSE SetOrConfigError(an, name, block)
      [] OTHER -> Assigned(CustomValue(deserializer.s, block))

(***************************************************************************)
(* Serializers.  Serialize returns [val, help, warned]: the value of       *)
(* serialize(name, parameterized), the string of help_string(name,         *)
(* parameterized) ("" for None) and whether the serializer logged the      *)
(* warning of _get_name_from_param_range.                                  *)
(***************************************************************************)
\* _get_name_from_param_range: the name of val in get_range(), else val
_get_name_from_param_range(name, val) ==
    LET NamesOf ==
            {i \in 1..Len(GetRange(name).e) :
                LET v == GetRange(name).e[i].e[1]
                IN  /\ \/ v.t = val.t
                       \/ v.t = "bool" /\ val.t = "int"
                    /\ PyEq(v, val)}
    IN  IF NamesOf # {}
        THEN [val |-> PyStr(GetRange(name).e[CHOOSE i \in NamesOf :
                                                \A j \in NamesOf : i <= j].s),
              warned |-> FALSE]
        ELSE [val |-> val, warned |-> TRUE]
\* 'Choices: "a", "b"' built from the names of get_range()
Choices(name, prefix) ==
    LET r == GetRange(name)
        F[k \in 0..Len(r.e)] ==
            IF k = 0 THEN prefix
            ELSE F[k - 1] \o (IF k = 1 THEN "" ELSE ", ") \o "\"" \o r.e[k].s \o "\""
    IN  IF Len(r.e) = 0 THEN "" ELSE F[Len(r.e)]

DefaultObjectSelectorSerializer(name, val) ==
    IF IsNone(val) THEN [val |-> val, help |-> Choices(name, "Choices: "), warned |-> FALSE]
    ELSE [val |-> _get_name_from_param_range(name, val).val,
          help |-> Choices(name, "Choices: "),
          warned |-> _get_name_from_param_range(name, val).warned]
DefaultListSelectorSerializer(name, val) ==
    [val |-> PyList([i \in 1..Len(val.e) |-> _get_name_from_param_range(name, val.e[i]).val]),
     help |-> Choices(name, "Element choices: "),
     warned |-> \E i \in 1..Len(val.e) : _get_name_from_param_range(name, val.e[i]).warned]
\* lines 490-525: the serializer of a _JsonStringSerializer class, given the
\* result r of the class it extends.  The values the serializers of the
\* modelled attributes return are lists of numbers and strings, which
\* json.dumps encodes
_to_json_string_serializer(r) ==
    \* "".join(chunks)
    LET Joined(chunks) ==
            LET F[k \in 0..Len(chunks)] == IF k = 0 THEN "" ELSE F[k - 1] \o chunks[k]
            IN  F[Len(chunks)]
    IN
    [val |-> IF IsNone(r.val) THEN r.val
             ELSE PyStr(Joined(_iterencode(r.val, None, 0).chunks)),
     help |-> IF r.help = "" THEN "A JSON object" ELSE "A JSON object. " \o r.help,
     warned |-> r.warned]

DEFAULT_SERIALIZER_DICT ==
    PyDict(<<KItem("ListSelector", Conv("DefaultListSelectorSerializer")),
             KItem("NumericTuple", Conv("DefaultTupleSerializer")),
             KItem("ObjectSelector", Conv("DefaultObjectSelectorSerializer"))>>)
DEFAULT_BACKUP_SERIALIZER == Conv("DefaultSerializer")

\* serializer.serialize(name, parameterized) and serializer.help_string(...)
Serialize(serializer, name, val) ==
    LET DefaultSerializer == [val |-> val, help |-> "", warned |-> FALSE]

        DefaultTupleSerializer ==
            [val |-> IF IsNone(val) THEN val ELSE PyList(val.e), help |-> "", warned |-> FALSE]
        CustomHelp(class_) ==
            IF class_ = "_StupidNumberSerializer" THEN "subtract dat 2" ELSE "left on time"
    IN
    CASE serializer.s = "DefaultSerializer" -> DefaultSerializer
      [] serializer.s = "DefaultTupleSerializer" -> DefaultTupleSerializer
      [] serializer.s = "DefaultObjectSelectorSerializer" ->
             DefaultObjectSelectorSerializer(name, val)
      [] serializer.s = "DefaultListSelectorSerializer" ->
             DefaultListSelectorSerializer(name, val)
      [] serializer.s = "JsonStringTupleSerializer" ->
             _to_json_string_serializer(DefaultTupleSerializer)
      [] serializer.s = "JsonStringListSelectorSerializer" ->
             _to_json_string_serializer(DefaultListSelectorSerializer(name, val))
      [] OTHER -> [val |-> CustomValue(serializer.s, val),
                   help |-> CustomHelp(serializer.s), warned |-> FALSE]

(***************************************************************************)
(* Order of strings: sorted() compares keys as Python compares strings.    *)
(* Alphabet lists, in that order, every key the model sorts.               *)
(***************************************************************************)
Alphabet ==
    <<"action", "bogus", "boolean", "dynamic", "integer", "list_selector", "name", "number",
      "numeric_tuple", "object_selector", "string", "zzz">>
Rank(k) == IF \E i \in 1..Len(Alphabet) : Alphabet[i] = k
           THEN CHOOSE i \in 1..Len(Alphabet) : Alphabet[i] = k
           ELSE Len(Alphabet) + 1
\* an iteration of the declared attributes that keeps "name"
SetIterationWithName(order) ==
    LET asc == SelectSeq(Alphabet, LAMBDA k : k \in Params)
    IN  IF order = "ascending" THEN asc
        ELSE [i \in 1..Len(asc) |-> asc[Len(asc) + 1 - i]]
\* the iteration order of set(parameterized.param.params()) less "name": a
\* set iterates in an order of the interpreter's choosing, here one of two
SetIteration(order) ==
    LET asc == SelectSeq(Alphabet, LAMBDA k : k \in Params /\ k # "name")
    IN  IF order = "ascending" THEN asc
        ELSE [i \in 1..Len(asc) |-> asc[Len(asc) + 1 - i]]

(***************************************************************************)
(* State.                                                                  *)
(***************************************************************************)
VARIABLES
    op,          \* the entry point called: "serialize", "deserialize", ...
    pc,          \* "call" entered, "loop" inside the while loop, "write" the
                 \* dictionary is built, "done" returned, "raised"
    inp,         \* the arguments of the call and the objects before it
    on_missing,  \* the missing-key policy argument
    allow_None,  \* the allow_None the attributes were declared with
    set_order,   \* the iteration order of a set of attribute names
    objs,        \* object identifier -> attribute name -> current value
    d_stack, p_stack, dnd_stack, dtd_stack, n_stack,  \* deserialize_from_dict
    p_queue, o_queue, snd_queue, std_queue, d_queue, h_queue, \* serialize_to_dict
    dict_,       \* serialize_to_dict: the dictionary being built
    help_dict,   \* serialize_to_dict: the help dictionary being built
    ret,         \* the value returned, None until the call returns
    warnings,    \* the warnings logged so far, oldest first
    calls,       \* the converter calls, or the suggest_params calls, made so
                 \* far, oldest first
    exc,         \* the exception that ended the call: [type, msg, chain]
    file         \* the strings given to file.write so far, oldest first

walk == <<d_stack, p_stack, dnd_stack, dtd_stack, n_stack,
          p_queue, o_queue, snd_queue, std_queue, d_queue, h_queue>>
vars == <<op, pc, inp, on_missing, allow_None, set_order, objs, walk,
          dict_, help_dict, ret, warnings, calls, exc, file>>

\* an exception: its type, the start of its message and, for a hierarchical
\* mismatch, the key chain the message reports
Exc(type, msg, chain) == [type |-> type, msg |-> msg, chain |-> chain]
NoExc == Exc("", "", <<>>)
\* a logged warning: the object that logged it (0: the param logger), the
\* key it is about and the key chain of a hierarchical mismatch
Warning(id, key, chain) == [obj |-> id, key |-> key, chain |-> chain]
\* a call serializer.serialize / deserializer.deserialize, with the override
\* dictionaries the flat function had been given
Call(id, name, conv, nd, td) ==
    [obj |-> id, name |-> name, conv |-> conv.s, name_dict |-> nd, type_dict |-> td]

(***************************************************************************)
(* _deserialize_from_dict_flat                                             *)
(***************************************************************************)
\* lines 1801-1806: the registry defaults overlaid with the type overrides
MergedDeserializerTypeDict(deserializer_type_dict) ==
    IF ~IsNone(deserializer_type_dict)
    THEN Update(DEFAULT_DESERIALIZER_DICT, deserializer_type_dict)
    ELSE DEFAULT_DESERIALIZER_DICT
\* SelectDeserializer looking at the type overrides before the name overrides
SelectDeserializerTypeFirst(name, name_dict, type_dict) ==
    IF HasType(type_dict, KindOf(name)) THEN GetType(type_dict, KindOf(name), None)
    ELSE IF Has(name_dict, name) THEN Get(name_dict, name, None)
    ELSE DEFAULT_BACKUP_DESERIALIZER
\* lines 1817-1824: the deserializer of attribute name
SelectDeserializer(name, name_dict, type_dict) ==
    IF Has(name_dict, name) THEN Get(name_dict, name, None)
    ELSE IF HasType(type_dict, KindOf(name)) THEN GetType(type_dict, KindOf(name), None)
    ELSE DEFAULT_BACKUP_DESERIALIZER
\* MissingParamToSet going on after the warning under every policy but
\* "ignore"
MissingParamToSetNeverRaises(id, name, policy, st) ==
    IF policy \in {"warn", "raise"}
    THEN [st EXCEPT !.warnings = Append(@, Warning(id, name, <<>>))]
    ELSE st
\* lines 1811-1816: a key that is not a declared attribute.  st is the
\* record [objs, warnings, calls, exc] the loop threads along
MissingParamToSet(id, name, policy, st) ==
    IF policy = "warn"
    THEN [st EXCEPT !.warnings = Append(@, Warning(id, name, <<>>))]
    ELSE IF policy = "raise"
    THEN [st EXCEPT !.exc = Exc("ValueError", "No param", <<>>)]
    ELSE st
\* line 1825: the call of the deserializer and its effect on the object
ApplyDeserializer(id, an, name, block, deserializer, nd, td, st) ==
    LET Outcome(r) ==
            [st EXCEPT !.calls = Append(@, Call(id, name, deserializer, nd, td)),
                       !.objs = IF r.set THEN [@ EXCEPT ![id][name] = r.val] ELSE @,
                       !.exc = IF r.exc = "" THEN @ ELSE Exc(r.exc, "convert", <<>>)]
    IN  Outcome(Deserialize(deserializer, an, name, block))
\* the mutation: the loop stops after the first item
DeserializeFirstItem(items, i, id, an, name_dict, type_dict, policy, nd, td, st) ==
    IF i > 1 \/ i > Len(items) THEN st
    ELSE IF items[i].s \notin Params THEN MissingParamToSet(id, items[i].s, policy, st)
    ELSE ApplyDeserializer(id, an, items[i].s, items[i].e[1],
                           SelectDeserializer(items[i].s, name_dict, type_dict), nd, td, st)
\* lines 1809-1825: the loop over list(dict_.items()), from item i on
RECURSIVE DeserializeItems(_, _, _, _, _, _, _, _, _, _)
DeserializeItems(items, i, id, an, name_dict, type_dict, policy, nd, td, st) ==
    IF i > Len(items) \/ st.exc # NoExc THEN st
    ELSE LET name == items[i].s
             block == items[i].e[1]
             st2 == IF name \notin Params THEN MissingParamToSet(id, name, policy, st)
                    ELSE ApplyDeserializer(id, an, name, block,
                             SelectDeserializer(name, name_dict, type_dict), nd, td, st)
         IN  DeserializeItems(items, i + 1, id, an, name_dict, type_dict, policy,
                              nd, td, st2)
_deserialize_from_dict_flat(d, id, an, deserializer_name_dict, deserializer_type_dict, policy, st) ==
    LET type_dict == MergedDeserializerTypeDict(deserializer_type_dict)
        name_dict == IF IsNone(deserializer_name_dict) THEN PyDict(<<>>)
                     ELSE deserializer_name_dict
    IN  IF ~IsDict(d) THEN [st EXCEPT !.exc = Exc("AttributeError", "items", <<>>)]
        ELSE DeserializeItems(d.e, 1, id, an, name_dict, type_dict, policy,
                              deserializer_name_dict, deserializer_type_dict, st)

(***************************************************************************)
(* _serialize_to_dict_flat.  The loop threads the record [dict_,           *)
(* help_dict, warnings, calls, exc].                                       *)
(***************************************************************************)
\* lines 613-620
SelectSerializer(name, name_dict, type_dict) ==
    IF Has(name_dict, name) THEN Get(name_dict, name, None)
    ELSE IF HasType(type_dict, KindOf(name)) THEN GetType(type_dict, KindOf(name), None)
    ELSE DEFAULT_BACKUP_SERIALIZER
\* lines 607-612
MissingParamToRead(id, name, policy, st) ==
    IF policy = "warn"
    THEN [st EXCEPT !.warnings = Append(@, Warning(id, name, <<>>))]
    ELSE IF policy = "raise"
    THEN [st EXCEPT !.exc = Exc("ValueError", "No param", <<>>)]
    ELSE st
\* lines 622-631: the help string of an attribute, "" when it has none.  The
\* documentation strings of the class neither start nor end in "." or " ",
\* so strip(". ") returns them as they are
HelpString(name, help_string_serial) ==
    \* p.doc
    LET Doc ==
            CASE name = "number" -> "here is a number"
              [] name = "string" -> "this is a string"
              [] OTHER -> ""
    IN  IF Doc # ""
        THEN (IF help_string_serial # "" THEN Doc \o ". " \o help_string_serial
              ELSE Doc)
        ELSE help_string_serial
\* lines 621-631
ApplySerializer(id, values, name, serializer, nd, td, st) ==
    LET Outcome(r, h) ==
            [st EXCEPT !.dict_ = SetItem(@, Item(name, r.val)),
                       !.help_dict = IF h = "" THEN @ ELSE SetItem(@, Item(name, PyStr(h))),
                       !.calls = Append(@, Call(id, name, serializer, nd, td)),
                       !.warnings = IF r.warned
                                    THEN Append(@, Warning(id, name, <<"get_range">>))
                                    ELSE @]
        WithHelp(r) == Outcome(r, HelpString(name, r.help))
    IN  WithHelp(Serialize(serializer, name, values[name]))
\* lines 605-631: the loop over only, from its element i on
RECURSIVE SerializeNames(_, _, _, _, _, _, _, _, _, _)
SerializeNames(only, i, id, values, name_dict, type_dict, policy, nd, td, st) ==
    IF i > Len(only) \/ st.exc # NoExc THEN st
    ELSE LET name == only[i]
             st2 == IF name \notin Params THEN MissingParamToRead(id, name, policy, st)
                    ELSE ApplySerializer(id, values, name,
                             SelectSerializer(name, name_dict, type_dict), nd, td, st)
         IN  SerializeNames(only, i + 1, id, values, name_dict, type_dict, policy,
                            nd, td, st2)
\* line 633: deterministic output
\* a dictionary left in the order its keys were inserted
InsertionOrderDict(d) == d
\* OrderedDict(sorted((k, v) for (k, v) in list(dict_.items())))
SortedDict(d) ==
    LET RECURSIVE SortedItems(_)
        SortedItems(items) ==
            IF items = <<>> THEN <<>>
            ELSE LET m == CHOOSE i \in 1..Len(items) :
                              \A j \in 1..Len(items) : Rank(items[i].s) <= Rank(items[j].s)
                     rest == [k \in 1..(Len(items) - 1) |->
                                  IF k < m THEN items[k] ELSE items[k + 1]]
                 IN  <<items[m]>> \o SortedItems(rest)
    IN  PyDict(SortedItems(d.e))
\* only is None or the list of names in the order iteration visits them
_serialize_to_dict_flat(id, values, only, serializer_name_dict, serializer_type_dict, policy, order, ws, cs) ==
    LET type_dict == IF ~IsNone(serializer_type_dict)
                     THEN Update(DEFAULT_SERIALIZER_DICT, serializer_type_dict)
                     ELSE DEFAULT_SERIALIZER_DICT
        name_dict == IF IsNone(serializer_name_dict) THEN PyDict(<<>>)
                     ELSE serializer_name_dict
        names == IF IsNone(only) THEN SetIteration(order)
                 ELSE [i \in 1..Len(only.e) |-> only.e[i].s]
        st == SerializeNames(names, 1, id, values, name_dict, type_dict, policy,
                  serializer_name_dict, serializer_type_dict,
                  [dict_ |-> PyDict(<<>>), help_dict |-> PyDict(<<>>),
                   warnings |-> ws, calls |-> cs, exc |-> NoExc])
    IN  [st EXCEPT !.dict_ = SortedDict(@)]

(***************************************************************************)
(* deserialize_from_dict: one action per iteration of its while loop.      *)
(***************************************************************************)
Last(q) == q[Len(q)]
Front(q) == SubSeq(q, 1, Len(q) - 1)

\* type overrides indexed like the name overrides: the child receives what
\* the map holds under its name and nothing else
ChildTypeDictByNameOnly(td, name) == IF IsNone(td) THEN None ELSE Get(td, name, None)
\* lines 1921-1928: the type overrides handed to the child called name
ChildTypeDict(td, name) ==
    IF IsNone(td) \/ (Has(td, name) /\ IsNone(Get(td, name, None))) THEN None
    ELSE LET td_name == PyDict(SelectSeq(td.e, LAMBDA it : it.t = "kitem"))
         IN  Update(td_name, Get(td, name, PyDict(<<>>)))
\* lines 1917-1920: the name overrides handed to the child called name
ChildNameDict(nd, name) == IF IsNone(nd) THEN None ELSE Get(nd, name, None)
\* a policy under which "raise" only warns
MissingParameterizedNeverRaises(policy, w) ==
    IF policy \in {"raise", "warn"}
    THEN [w EXCEPT !.warnings = Append(@, Warning(0, Last(Last(w.n_stack)), Last(w.n_stack)))]
    ELSE w
\* lines 1906-1914: a key of the data with no object to match it.  w is the
\* record [d_stack, p_stack, dnd_stack, dtd_stack, n_stack, warnings, exc]
MissingParameterized(policy, w) ==
    IF policy = "raise"
    THEN [w EXCEPT !.exc = Exc("ValueError", "no parameterized instance", Last(w.n_stack))]
    ELSE IF policy = "warn"
    THEN [w EXCEPT !.warnings = Append(@, Warning(0, Last(Last(w.n_stack)), Last(w.n_stack)))]
    ELSE w
\* x.get(...) raises AttributeError: x is neither None (tested before the
\* call) nor a dictionary
NotMapping(x) == ~IsNone(x) /\ ~IsDict(x)
\* lines 1903-1928: the body of `for name in d` for one name
VisitName(d, p, dnd, dtd, n, name, policy, w) ==
    LET p_name == Get(p, name, None)
        w1 == [w EXCEPT !.n_stack = Append(@, Append(n, name))]
    IN  IF IsNone(p_name) THEN MissingParameterized(policy, w1)
        ELSE IF ~IsDict(d) \/ NotMapping(dnd) \/ NotMapping(dtd)
        THEN [w1 EXCEPT !.exc = Exc("AttributeError", "get", <<>>)]
        ELSE [w1 EXCEPT !.d_stack = Append(@, Get(d, name, PyDict(<<>>))),
                        !.p_stack = Append(@, p_name),
                        !.dnd_stack = Append(@, ChildNameDict(dnd, name)),
                        !.dtd_stack = Append(@, ChildTypeDict(dtd, name))]
\* a loop that, once the keys of d are visited, also applies the policy when
\* p has a key that d has not
RECURSIVE VisitNamesThenObjectKeys(_, _, _, _, _, _, _, _, _)
VisitNamesThenObjectKeys(names, i, d, p, dnd, dtd, n, policy, w) ==
    IF w.exc # NoExc THEN w
    ELSE IF i > Len(names)
    THEN (IF \E j \in 1..Len(p.e) : ~Has(d, p.e[j].s)
          THEN [MissingParameterized(policy,
                    [w EXCEPT !.n_stack = Append(@, Append(n,
                        p.e[CHOOSE j \in 1..Len(p.e) : ~Has(d, p.e[j].s)].s))])
                    EXCEPT !.n_stack = w.n_stack]
          ELSE w)
    ELSE VisitNamesThenObjectKeys(names, i + 1, d, p, dnd, dtd, n, policy,
                                  VisitName(d, p, dnd, dtd, n, names[i], policy, w))
\* a loop that visits the keys of d last key first
RECURSIVE VisitNamesBackwards(_, _, _, _, _, _, _, _, _)
VisitNamesBackwards(names, i, d, p, dnd, dtd, n, policy, w) ==
    IF i > Len(names) \/ w.exc # NoExc THEN w
    ELSE VisitNamesBackwards(names, i + 1, d, p, dnd, dtd, n, policy,
                             VisitName(d, p, dnd, dtd, n, names[Len(names) + 1 - i],
                                       policy, w))
\* lines 1902-1928: `for name in d`, from the key at position i on
RECURSIVE VisitNames(_, _, _, _, _, _, _, _, _)
VisitNames(names, i, d, p, dnd, dtd, n, policy, w) ==
    IF i > Len(names) \/ w.exc # NoExc THEN w
    ELSE VisitNames(names, i + 1, d, p, dnd, dtd, n, policy,
                    VisitName(d, p, dnd, dtd, n, names[i], policy, w))

\* lines 1893-1900: the object popped is a param.Parameterized
DeserializeLeaf ==
    /\ op = "deserialize" /\ pc = "loop"
    /\ IsParameterized(Last(p_stack))
    /\ \E st \in {_deserialize_from_dict_flat(
                     Last(d_stack), Last(p_stack).n, allow_None, Last(dnd_stack),
                     Last(dtd_stack), on_missing,
                     [objs |-> objs, warnings |-> warnings, calls |-> calls,
                      exc |-> NoExc])} :
           /\ objs' = st.objs
           /\ warnings' = st.warnings
           /\ calls' = st.calls
           /\ exc' = st.exc
           /\ pc' = IF st.exc # NoExc THEN "raised"
                    ELSE IF Len(d_stack) = 1 THEN "done" ELSE "loop"
    /\ d_stack' = Front(d_stack)
    /\ p_stack' = Front(p_stack)
    /\ dnd_stack' = Front(dnd_stack)
    /\ dtd_stack' = Front(dtd_stack)
    /\ n_stack' = Front(n_stack)
    /\ UNCHANGED <<file, op, inp, on_missing, allow_None, set_order, p_queue, o_queue,
                   snd_queue, std_queue, d_queue, h_queue, dict_, help_dict, ret>>

\* lines 1893-1898, 1901-1928: the object popped is a dictionary
DeserializeNode ==
    \* line 1902: the names `for name in d` visits, given what iter(d) yields
    LET NamesToVisit(elems) == [i \in 1..Len(elems) |-> elems[i].s]
    IN
    /\ op = "deserialize" /\ pc = "loop"
    /\ ~IsParameterized(Last(p_stack))
    /\ LET Visit(d, it, w0) ==
               IF it.exc # "" THEN [w0 EXCEPT !.exc = Exc(it.exc, "iterate", <<>>)]
               ELSE VisitNames(NamesToVisit(it.val.e), 1, d,
                               Last(p_stack), Last(dnd_stack), Last(dtd_stack),
                               Last(n_stack), on_missing, w0)
       IN  \E w \in {Visit(Last(d_stack), Iter(Last(d_stack)),
                           [d_stack |-> Front(d_stack), p_stack |-> Front(p_stack),
                            dnd_stack |-> Front(dnd_stack), dtd_stack |-> Front(dtd_stack),
                            n_stack |-> Front(n_stack), warnings |-> warnings,
                            exc |-> NoExc])} :
           /\ d_stack' = w.d_stack
           /\ p_stack' = w.p_stack
           /\ dnd_stack' = w.dnd_stack
           /\ dtd_stack' = w.dtd_stack
           /\ n_stack' = w.n_stack
           /\ warnings' = w.warnings
           /\ exc' = w.exc
           /\ pc' = IF w.exc # NoExc THEN "raised"
                    ELSE IF w.d_stack = <<>> THEN "done" ELSE "loop"
    /\ UNCHANGED <<file, op, inp, on_missing, allow_None, set_order, objs, calls, p_queue,
                   o_queue, snd_queue, std_queue, d_queue, h_queue, dict_, help_dict,
                   ret>>

(***************************************************************************)
(* serialize_to_dict: one action per iteration of its while loop.  d_queue *)
(* and h_queue hold references into dict_ and help_dict: the key path of   *)
(* the dictionary referred to.                                             *)
(***************************************************************************)
\* line 753
Returned(include_help, d, h) == IF include_help THEN PyTuple(<<d, h>>) ELSE d

\* lines 719-729: the object taken from the queue is a param.Parameterized
SerializeLeaf ==
    /\ op \in {"serialize", "serialize_to_ini", "serialize_to_json"} /\ pc = "loop"
    /\ IsParameterized(Head(p_queue))
    /\ \E st \in {_serialize_to_dict_flat(
                        Head(p_queue).n, objs[Head(p_queue).n], Head(o_queue),
                        Head(snd_queue), Head(std_queue), on_missing, set_order,
                        warnings, calls)} :
       \E d \in {SetAt(dict_, Head(d_queue),
                       Update(GetAt(dict_, Head(d_queue)), st.dict_))} :
       \E h \in {SetAt(help_dict, Head(h_queue),
                       Update(GetAt(help_dict, Head(h_queue)), st.help_dict))} :
       \E raised \in {st.exc # NoExc} :
       \E finished \in {~raised /\ Len(p_queue) = 1} :
           /\ warnings' = st.warnings
           /\ calls' = st.calls
           /\ exc' = st.exc
           /\ dict_' = IF raised THEN dict_ ELSE d
           /\ help_dict' = IF raised THEN help_dict ELSE h
           /\ pc' = IF raised THEN "raised"
                    ELSE IF ~finished THEN "loop"
                    ELSE IF op = "serialize" THEN "done" ELSE "write"
           /\ ret' = IF finished THEN Returned(inp.include_help, d, h) ELSE ret
    /\ p_queue' = Tail(p_queue)
    /\ o_queue' = Tail(o_queue)
    /\ snd_queue' = Tail(snd_queue)
    /\ std_queue' = Tail(std_queue)
    /\ d_queue' = Tail(d_queue)
    /\ h_queue' = Tail(h_queue)
    /\ UNCHANGED <<file, op, inp, on_missing, allow_None, set_order, objs, d_stack, p_stack,
                   dnd_stack, dtd_stack, n_stack>>

RECURSIVE EnqueueNames(_, _, _, _, _, _, _, _, _)
EnqueueNames(names, i, p, o, snd, std, dpath, hpath, q) ==
    \* lines 731-752: the body of `for name in p` for one name.  q is the record
    \* of the six queues and the two dictionaries
    LET EnqueueName(name) ==
            IF NotMapping(o) \/ NotMapping(snd) \/ NotMapping(std)
            THEN [q EXCEPT !.exc = Exc("AttributeError", "get", <<>>)]
            ELSE
            [q EXCEPT !.p_queue = Append(@, Get(p, name, None)),
                      !.o_queue = Append(@, IF IsNone(o) THEN None ELSE Get(o, name, None)),
                      !.snd_queue = Append(@, ChildNameDict(snd, name)),
                      !.std_queue = Append(@, ChildTypeDict(std, name)),
                      !.d_queue = Append(@, Append(dpath, name)),
                      !.dict_ = SetAt(@, Append(dpath, name), PyDict(<<>>)),
                      !.h_queue = Append(@, Append(hpath, name)),
                      !.help_dict = SetAt(@, Append(hpath, name), PyDict(<<>>))]
    IN  IF i > Len(names) \/ q.exc # NoExc THEN q
        ELSE EnqueueNames(names, i + 1, p, o, snd, std, dpath, hpath, EnqueueName(names[i]))

\* an iteration that visits the keys of p last key first
ChildNamesReversed(p) == [i \in 1..Len(p.e) |-> p.e[Len(p.e) + 1 - i].s]
\* line 731: the names `for name in p` visits
ChildNames(p) == Keys(p)
\* lines 719-725, 730-752: the object taken from the queue is a dictionary
SerializeNode ==
    /\ op \in {"serialize", "serialize_to_ini", "serialize_to_json"} /\ pc = "loop"
    /\ ~IsParameterized(Head(p_queue))
    /\ \E q \in {EnqueueNames(
                       ChildNames(Head(p_queue)), 1, Head(p_queue), Head(o_queue),
                       Head(snd_queue), Head(std_queue), Head(d_queue), Head(h_queue),
                       [p_queue |-> Tail(p_queue), o_queue |-> Tail(o_queue),
                        snd_queue |-> Tail(snd_queue), std_queue |-> Tail(std_queue),
                        d_queue |-> Tail(d_queue), h_queue |-> Tail(h_queue),
                        dict_ |-> dict_, help_dict |-> help_dict, exc |-> NoExc])} :
       \E finished \in {q.exc = NoExc /\ q.p_queue = <<>>} :
           /\ p_queue' = q.p_queue
           /\ o_queue' = q.o_queue
           /\ snd_queue' = q.snd_queue
           /\ std_queue' = q.std_queue
           /\ d_queue' = q.d_queue
           /\ h_queue' = q.h_queue
           /\ dict_' = q.dict_
           /\ help_dict' = q.help_dict
           /\ exc' = q.exc
           /\ pc' = IF q.exc # NoExc THEN "raised"
                    ELSE IF ~finished THEN "loop"
                    ELSE IF op = "serialize" THEN "done" ELSE "write"
           /\ ret' = IF finished THEN Returned(inp.include_help, q.dict_, q.help_dict)
                     ELSE ret
    /\ UNCHANGED <<file, op, inp, on_missing, allow_None, set_order, objs, d_stack, p_stack,
                   dnd_stack, dtd_stack, n_stack, warnings, calls>>

(***************************************************************************)
(* The format adapters, writing to a file object.  serialize_to_ini and    *)
(* serialize_to_json call serialize_to_dict, whose loop the two actions    *)
(* above are, and then write what it returned.                             *)
(***************************************************************************)
\* serialize_to_ini lines 829-844, serialize_to_json lines 947-954: the
\* call of serialize_to_dict, for INI with the JSON-string serializers
SerializeToDict ==
    \* lines 573-586, for the kinds of the modelled attributes
    LET JSON_STRING_SERIALIZER_DICT ==
            PyDict(<<KItem("ListSelector", Conv("JsonStringListSelectorSerializer")),
                     KItem("NumericTuple", Conv("JsonStringTupleSerializer"))>>)
    IN
    /\ op \in {"serialize_to_ini", "serialize_to_json"} /\ pc = "call"
    /\ pc' = "loop"
    /\ p_queue' = <<inp.parameterized>>
    /\ o_queue' = <<inp.only>>
    /\ snd_queue' = <<inp.name_dict>>
    /\ std_queue' = <<IF op = "serialize_to_json" THEN inp.type_dict
                      ELSE IF IsNone(inp.type_dict) \/ inp.type_dict.e = <<>>
                      THEN JSON_STRING_SERIALIZER_DICT
                      ELSE Update(JSON_STRING_SERIALIZER_DICT, inp.type_dict)>>
    /\ d_queue' = << <<>> >> /\ h_queue' = << <<>> >>
    /\ dict_' = PyDict(<<>>) /\ help_dict' = PyDict(<<>>)
    /\ UNCHANGED <<file, op, inp, on_missing, allow_None, set_order, objs, d_stack,
                   p_stack, dnd_stack, dtd_stack, n_stack, ret, warnings, calls, exc>>

\* lines 855-895: the loop over the queues, p the container, d and h what
\* serialize_to_dict returned for it.  The result is the exception raised,
\* the option lines set in the DEFAULT section, the strings parser.write
\* writes for the sections added, and the contents of help_string_io
IniParser(p, d, h, help_prefix) ==
    \* configparser's line for an option: `key = value`, the bare key for None
    LET OptionLine(item) ==
            IF IsNone(item.e[1]) THEN item.s \o "\n"
            ELSE item.s \o " = " \o StrOf(item.e[1]) \o "\n"
        Options(section) == [i \in 1..Len(section.e) |-> OptionLine(section.e[i])]
        HelpLine(hs, item) ==
            IF Has(hs, item.s)
            THEN help_prefix \o " " \o item.s \o ": " \o StrOf(Get(hs, item.s, None)) \o "\n"
            ELSE ""
        HelpLines(section, hs) ==
            LET F[k \in 0..Len(section.e)] ==
                    IF k = 0 THEN "" ELSE F[k - 1] \o HelpLine(hs, section.e[k])
            IN  F[Len(section.e)]
        Help(key, section, hs) ==
            IF hs.e = <<>> THEN ""
            ELSE help_prefix \o " [" \o key \o "]\n" \o HelpLines(section, hs) \o "\n"
        Section(st, key, section, hs) ==
            [exc |-> "",
             defaults |-> IF key = "DEFAULT" THEN st.defaults \o Options(section)
                          ELSE st.defaults,
             sections |-> IF key = "DEFAULT" THEN st.sections
                          ELSE st.sections \o <<"[" \o key \o "]\n">> \o Options(section)
                                   \o <<"\n">>,
             help |-> st.help \o Help(key, section, hs)]
        Pop(st, key) ==
            IF st.exc # "" \/ ~Has(d, key) THEN st
            ELSE IF ~IsParameterized(Get(p, key, None)) THEN [st EXCEPT !.exc = "IOError"]
            ELSE Section(st, key, Get(d, key, None), Get(h, key, PyDict(<<>>)))
        G[k \in 0..Len(p.e)] ==
            IF k = 0 THEN [exc |-> "", defaults |-> <<>>, sections |-> <<>>, help |-> ""]
            ELSE Pop(G[k - 1], p.e[k].s)
    IN  G[Len(p.e)]
\* lines 845-854, 896-902: what serialize_to_ini writes
SerializeToIni ==
    /\ op = "serialize_to_ini" /\ pc = "write"
    /\ \E one_param_section \in
              {IF ~IsParameterized(inp.parameterized) THEN ""
               ELSE IF IsNone(inp.one_param_section)
               THEN objs[inp.parameterized.n]["name"].s
               ELSE inp.one_param_section.s} :
       \E d \in {IF inp.include_help THEN ret.e[1] ELSE ret} :
       \E h \in {IF inp.include_help THEN ret.e[2] ELSE PyDict(<<>>)} :
       \E r \in {IF IsParameterized(inp.parameterized)
                 THEN IniParser(PyDict(<<Item(one_param_section, inp.parameterized)>>),
                                PyDict(<<Item(one_param_section, d)>>),
                                PyDict(<<Item(one_param_section, h)>>), inp.help_prefix)
                 ELSE IniParser(inp.parameterized, d, h, inp.help_prefix)} :
           /\ exc' = IF r.exc = "" THEN NoExc ELSE Exc(r.exc, "depth", <<>>)
           /\ pc' = IF r.exc = "" THEN "done" ELSE "raised"
           /\ ret' = IF r.exc = "" THEN None ELSE ret
           /\ file' = IF r.exc # "" THEN file
                      ELSE file
                           \o (IF r.help = "" THEN <<>>
                               ELSE <<inp.help_prefix \o " == Help ==\n", r.help, "\n">>)
                           \o (IF r.defaults = <<>> THEN <<>>
                               ELSE <<"[DEFAULT]\n">> \o r.defaults \o <<"\n">>)
                           \o r.sections
    /\ UNCHANGED <<op, inp, on_missing, allow_None, set_order, objs, walk, dict_,
                   help_dict, warnings, calls>>
\* serialize_from_obj_to_json, _file_serialization.py lines 47-51, on a file
\* object: json.dump writes every string of the encoder as it gets it
SerializeFromObjToJson ==
    /\ op = "serialize_to_json" /\ pc = "write"
    /\ \E r \in {_iterencode(ret, inp.indent, 0)} :
           /\ file' = file \o r.chunks
           /\ exc' = IF r.exc = "" THEN NoExc ELSE Exc(r.exc, "JSON serializable", <<>>)
           /\ pc' = IF r.exc = "" THEN "done" ELSE "raised"
           /\ ret' = IF r.exc = "" THEN None ELSE ret
    /\ UNCHANGED <<op, inp, on_missing, allow_None, set_order, objs, walk, dict_,
                   help_dict, warnings, calls>>

(***************************************************************************)
(* Dates.  A naive datetime.datetime is the day it falls on, counted from  *)
(* 1970-01-01, the second of that day and the microsecond of that second.  *)
(***************************************************************************)
DateTime(day, sec, usec) == Val("datetime", 0, "", <<PyInt(day), PyInt(sec), PyInt(usec)>>)
DayOf(dt) == dt.e[1].n
SecOf(dt) == dt.e[2].n
UsecOf(dt) == dt.e[3].n
\* lines 238-257, for a naive datetime: the seconds since 1970-01-01, a
\* float that is whole + micro / 10^6
_timestamp(dt) ==
    LET PyFloatMicro(whole, micro) ==
            IF micro = 0 THEN PyFloat(whole) ELSE Val("float", whole, "", <<PyInt(micro)>>)
    IN  PyFloatMicro((DayOf(dt) * 86400) + SecOf(dt), UsecOf(dt))

FORMAT_DAY == "%Y-%m-%d"
FORMAT_SECONDS == "%Y-%m-%dT%H:%M:%S"
FORMAT_MICROSECONDS == "%Y-%m-%dT%H:%M:%S.%f"
FORMAT_TIME == "%H:%M:%S"
\* dt.strftime(format)
Strftime(dt, format) ==
    LET Pad2(n) == IF n < 10 THEN "0" \o NatStr(n) ELSE NatStr(n)
        Pad6(n) ==
            (IF n < 10 THEN "00000" ELSE IF n < 100 THEN "0000" ELSE IF n < 1000 THEN "000"
             ELSE IF n < 10000 THEN "00" ELSE IF n < 100000 THEN "0" ELSE "") \o NatStr(n)
        \* %Y-%m-%d of a day of January 1970
        DateStr(day) == "1970-01-" \o Pad2(day + 1)
        \* %H:%M:%S
        TimeStr(sec) ==
            Pad2(sec \div 3600) \o ":" \o Pad2((sec % 3600) \div 60) \o ":" \o Pad2(sec % 60)
    IN
    CASE format = FORMAT_DAY -> DateStr(DayOf(dt))
      [] format = FORMAT_SECONDS -> DateStr(DayOf(dt)) \o "T" \o TimeStr(SecOf(dt))
      [] format = FORMAT_MICROSECONDS ->
             DateStr(DayOf(dt)) \o "T" \o TimeStr(SecOf(dt)) \o "." \o Pad6(UsecOf(dt))
      [] OTHER -> TimeStr(SecOf(dt))

\* the datetimes explored
MaxDay == 1
DateTimes == {DateTime(d, x, u) : d \in 0..MaxDay, x \in {0, 1, 3661}, u \in {0, 1}}
\* dt.strptime(s, format): the datetime the format reads in s, ValueError
\* when s does not match the format
Strptime(s, format) ==
    \* the datetimes strptime can return under a format: a field the format does
    \* not name has its default
    LET DAY_1900 == -25567
        Parsed ==
            {DateTime(IF format = FORMAT_TIME THEN DAY_1900 ELSE DayOf(dt),
                      IF format = FORMAT_DAY THEN 0 ELSE SecOf(dt),
                      IF format = FORMAT_MICROSECONDS THEN UsecOf(dt) ELSE 0) :
                 dt \in DateTimes}
    IN  IF \E d \in Parsed : Strftime(d, format) = s
        THEN Ok(CHOOSE d \in Parsed : Strftime(d, format) = s)
        ELSE Raise("ValueError")

\* a search that returns the string of the last format whatever it re-parses
\* to
LastFormatted(dt, formats, i) ==
    IF formats = <<>>
    THEN [exc |-> "UnboundLocalError", val |-> None, format |-> "", warned |-> TRUE]
    ELSE [exc |-> "", val |-> PyStr(Strftime(dt, formats[Len(formats)].s)),
          format |-> formats[Len(formats)].s, warned |-> FALSE]
\* lines 220-235.  formats is a string or a tuple of strings; the result is
\* the exception raised, the string and the format returned, and whether
\* the loss of information was warned of
RECURSIVE FirstExact(_, _, _)
FirstExact(dt, formats, i) ==
    IF i > Len(formats)
    THEN (IF formats = <<>>
          THEN [exc |-> "UnboundLocalError", val |-> None, format |-> "", warned |-> TRUE]
          ELSE [exc |-> "", val |-> PyStr(Strftime(dt, formats[Len(formats)].s)),
                format |-> formats[Len(formats)].s, warned |-> TRUE])
    ELSE LET Try(s, dt2) ==
                 IF dt2.exc = "ValueError"
                 THEN [exc |-> "ParamConfigTypeError", val |-> None, format |-> "",
                       warned |-> FALSE]
                 ELSE IF dt = dt2.val
                 THEN [exc |-> "", val |-> PyStr(s), format |-> formats[i].s,
                       warned |-> FALSE]
                 ELSE FirstExact(dt, formats, i + 1)
             Format(s) == Try(s, Strptime(s, formats[i].s))
         IN  Format(Strftime(dt, formats[i].s))
\* a formatting that gives the timestamp when no format is exact
DatetimeToFormattedOrTimestamp(dt, formats) ==
    LET OrTimestamp(r) ==
            IF r.warned
            THEN [exc |-> "", val |-> _timestamp(dt),
                  format |-> "", warned |-> FALSE]
            ELSE r
    IN  OrTimestamp(FirstExact(dt, IF formats.t = "str" THEN <<formats>> ELSE formats.e, 1))
_datetime_to_formatted(dt, formats) ==
    FirstExact(dt, IF formats.t = "str" THEN <<formats>> ELSE formats.e, 1)
\* DefaultDateSerializer(format).serialize, lines 313-326
DefaultDateSerializer(format, val) ==
    IF IsNone(val) THEN [exc |-> "", val |-> val, format |-> "", warned |-> FALSE]
    ELSE IF IsNone(format)
    THEN [exc |-> "", val |-> _timestamp(val), format |-> "", warned |-> FALSE]
    ELSE _datetime_to_formatted(val, format)
\* the default of the format argument, lines 282-286
DEFAULT_DATE_FORMAT ==
    PyTuple(<<PyStr(FORMAT_DAY), PyStr(FORMAT_SECONDS), PyStr(FORMAT_MICROSECONDS)>>)

\* one call of DefaultDateSerializer(inp.format).serialize on an object whose
\* attribute holds inp.val
SerializeDate ==
    /\ op = "serialize_date" /\ pc = "call"
    /\ \E r \in {DefaultDateSerializer(inp.format, inp.val)} :
           /\ ret' = r.val
           /\ warnings' = IF r.warned
                          THEN Append(warnings, Warning(1, "date", <<"Loss of info">>))
                          ELSE warnings
           /\ exc' = IF r.exc = "" THEN NoExc ELSE Exc(r.exc, "convert", <<>>)
           /\ pc' = IF r.exc = "" THEN "done" ELSE "raised"
    /\ UNCHANGED <<file, op, inp, on_missing, allow_None, set_order, objs, walk, dict_,
                   help_dict, calls>>

(***************************************************************************)
(* The date deserializers.  numpy tells whether numpy can be imported:     *)
(* param.dt_types is then (datetime, date, numpy.datetime64), and          *)
(* (datetime, date) otherwise.                                             *)
(***************************************************************************)
\* lines 1288-1298: the datetime of the first format that reads block, None
\* when there is none
_get_datetime_from_formats(block, formats) ==
    LET fs == IF formats.t = "str" THEN <<formats>> ELSE formats.e
        reading == {i \in 1..Len(fs) : Strptime(block.s, fs[i].s).exc = ""}
    IN  IF reading = {} THEN None
        ELSE Strptime(block.s, fs[CHOOSE i \in reading : \A j \in reading : i <= j].s).val
\* lines 1357-1361 and 1417-1421: float(block) read as a timestamp when it
\* has a remainder or exceeds the maximum ordinal, as an ordinal otherwise
DateFromFloat(block) ==
    \* datetime(1970, 1, 1).toordinal() and datetime.max.toordinal()
    LET EPOCH_ORDINAL == 719163
        MAX_ORDINAL == 3652059
        \* datetime.utcfromtimestamp(f), datetime.fromordinal(int(f))
        FromNumber(f) ==
            IF f.e # <<>> \/ f.n > MAX_ORDINAL
            THEN Ok(DateTime(f.n \div 86400, f.n % 86400,
                             IF f.e = <<>> THEN 0 ELSE f.e[1].n))
            ELSE IF f.n < 1 THEN Raise("ValueError")
            ELSE Ok(DateTime(f.n - EPOCH_ORDINAL, 0, 0))
        FromFloat(float_block) ==
            IF float_block.exc # "" THEN float_block ELSE FromNumber(float_block.val)
    IN  FromFloat(IF block.t = "float" THEN Ok(block) ELSE FloatOf(block))
\* DefaultDateDeserializer(format).deserialize, lines 1341-1375
DefaultDateDeserializer(format, an, name, block, numpy) ==
    \* lines 1364-1370: dt_type(block) for the types of param.dt_types in turn.
    \* datetime and date take a year, a month and a day and raise TypeError on
    \* one argument; numpy.datetime64 reads a string in ISO 8601 format
    LET Iso(x) ==
            \/ x = "1970-01"
            \/ \E dt \in DateTimes, f \in {FORMAT_DAY, FORMAT_SECONDS, FORMAT_MICROSECONDS} :
                   Strftime(dt, f) = x
        DateFromTypes ==
            IF numpy /\ block.t = "str" /\ Iso(block.s)
            THEN Ok(Val("datetime64", 0, block.s, <<>>))
            ELSE Raise("TypeError")
        Formatted == IF ~IsNone(format) /\ block.t = "str"
                     THEN _get_datetime_from_formats(block, format) ELSE None
        Constructed(r) == IF r.exc = "" THEN Assigned(r.val) ELSE Failed("ParamConfigTypeError")
        Numbered(r) ==
            IF r.exc = "" THEN Assigned(r.val) ELSE Constructed(DateFromTypes)
    IN  IF check_if_allow_none_and_set(an, name, block) THEN Assigned(None)
        ELSE IF block.t = "datetime" THEN Assigned(block)
        ELSE IF ~IsNone(Formatted) THEN Assigned(Formatted)
        ELSE Numbered(DateFromFloat(block))
\* DefaultDateRangeDeserializer(format).deserialize, lines 1398-1441
DefaultDateRangeDeserializer(format, an, name, block, numpy) ==
    \* lines 1409-1436: the body of `for elem in block`.  The `continue` of
    \* line 1429 continues the loop over param.dt_types, so line 1432 raises
    \* whatever the constructors did
    LET Element(elem) ==
            LET Formatted == IF ~IsNone(format) /\ elem.t = "str"
                             THEN _get_datetime_from_formats(elem, format) ELSE None
            IN  IF elem.t = "datetime" THEN Ok(elem)
                ELSE IF ~IsNone(Formatted) THEN Ok(Formatted)
                ELSE IF DateFromFloat(elem).exc = "" THEN DateFromFloat(elem)
                ELSE Raise("ParamConfigTypeError")
        \* param.DateRange accepts a pair of dates, the first not after
        \* the second
        NotAfter(a, b) ==
            \/ DayOf(a) < DayOf(b)
            \/ DayOf(a) = DayOf(b) /\ SecOf(a) < SecOf(b)
            \/ DayOf(a) = DayOf(b) /\ SecOf(a) = SecOf(b) /\ UsecOf(a) <= UsecOf(b)
        SetRange(val) ==
            IF Len(val) = 2 /\ NotAfter(val[1], val[2]) THEN Assigned(PyTuple(val))
            ELSE Failed("ParamConfigTypeError")
        Elements(it) ==
            IF it.exc # "" THEN Failed(it.exc)
            ELSE IF \E i \in 1..Len(it.val.e) : Element(it.val.e[i]).exc # ""
            THEN Failed("ParamConfigTypeError")
            ELSE SetRange([i \in 1..Len(it.val.e) |-> Element(it.val.e[i]).val])
    IN  IF check_if_allow_none_and_set(an, name, block) THEN Assigned(None)
        ELSE Elements(Iter(block))

\* one call of DefaultDateDeserializer(inp.format).deserialize
DeserializeDate ==
    /\ op = "deserialize_date" /\ pc = "call"
    /\ \E r \in {DefaultDateDeserializer(inp.format, allow_None, "date", inp.block,
                                         inp.numpy)} :
           /\ ret' = r.val
           /\ exc' = IF r.exc = "" THEN NoExc ELSE Exc(r.exc, "convert", <<>>)
           /\ pc' = IF r.exc = "" THEN "done" ELSE "raised"
    /\ UNCHANGED <<file, op, inp, on_missing, allow_None, set_order, objs, walk, dict_,
                   help_dict, warnings, calls>>
\* one call of DefaultDateRangeDeserializer(inp.format).deserialize
DeserializeDateRange ==
    /\ op = "deserialize_date_range" /\ pc = "call"
    /\ \E r \in {DefaultDateRangeDeserializer(inp.format, allow_None, "date_range",
                                              inp.block, inp.numpy)} :
           /\ ret' = r.val
           /\ exc' = IF r.exc = "" THEN NoExc ELSE Exc(r.exc, "convert", <<>>)
           /\ pc' = IF r.exc = "" THEN "done" ELSE "raised"
    /\ UNCHANGED <<file, op, inp, on_missing, allow_None, set_order, objs, walk, dict_,
                   help_dict, warnings, calls>>

(***************************************************************************)
(* The array deserializers.  A numpy array is written as the numpy         *)
(* function that made it and the argument it was given.  readable tells    *)
(* whether numpy.load and numpy.fromstring can read what they are given.   *)
(***************************************************************************)
\* s.split("."), for the strings that occur as raw values
SplitDot(s) ==
    CASE s = "a.npy" -> <<"a", "npy">>
      [] s = "a.csv" -> <<"a", "csv">>
      [] s = "\"a.npy\"" -> <<"\"a", "npy\"">>
      [] OTHER -> <<s>>
\* json.loads(s), for the strings that occur as raw values
JsonLoads(s) ==
    CASE s = "[1, 2]" -> Ok(PyList(<<PyInt(1), PyInt(2)>>))
      [] s = "3" -> Ok(PyInt(3))
      [] s = "null" -> Ok(None)
      [] s = "\"a.npy\"" -> Ok(PyStr("a.npy"))
      [] OTHER -> Raise("JSONDecodeError")
\* DefaultArrayDeserializer.deserialize, lines 1063-1100
DefaultArrayDeserializer(an, name, block, readable) ==
    LET Array(function) == Val("ndarray", 0, function, <<block>>)
    IN  IF check_if_allow_none_and_set(an, name, block) THEN Assigned(None)
        ELSE IF block.t = "ndarray" THEN Assigned(block)
        ELSE IF block.t = "str" /\ Len(SplitDot(block.s)) > 1
                /\ Last(SplitDot(block.s)) = "npy"
        THEN (IF readable THEN Assigned(Array("load")) ELSE Failed("ParamConfigTypeError"))
        ELSE IF block.t = "str"
        THEN (IF readable THEN Assigned(Array("fromstring"))
              ELSE Failed("ParamConfigTypeError"))
        ELSE Assigned(Array("array"))
\* JsonStringArrayDeserializer.deserialize, lines 1632-1646
JsonStringArrayDeserializer(an, name, block, readable) ==
    LET file_suffixes == {"csv"}
        Loaded(r) ==
            IF r.exc # "" THEN Failed("ParamConfigTypeError")
            ELSE DefaultArrayDeserializer(an, name, r.val, readable)
    IN  IF check_if_allow_none_and_set(an, name, block) THEN Assigned(None)
        ELSE IF block.t # "str" THEN Failed("AttributeError")
        ELSE IF Len(SplitDot(block.s)) > 1 /\ Last(SplitDot(block.s)) \in file_suffixes
        THEN DefaultArrayDeserializer(an, name, block, readable)
        ELSE Loaded(JsonLoads(block.s))

\* one call of JsonStringArrayDeserializer().deserialize
DeserializeArray ==
    /\ op = "deserialize_array" /\ pc = "call"
    /\ \E r \in {JsonStringArrayDeserializer(allow_None, "array", inp.block, inp.readable)} :
           /\ ret' = r.val
           /\ exc' = IF r.exc = "" THEN NoExc ELSE Exc(r.exc, "convert", <<>>)
           /\ pc' = IF r.exc = "" THEN "done" ELSE "raised"
    /\ UNCHANGED <<file, op, inp, on_missing, allow_None, set_order, objs, walk, dict_,
                   help_dict, warnings, calls>>

(***************************************************************************)
(* abc.py: AbstractParameterizedMetaclass.  A class object is its name;    *)
(* objs holds, for every class made by the metaclass, its _abc_registry,   *)
(* _abc_cache, _abc_negative_cache and _abc_negative_cache_version, and    *)
(* for the metaclass its _abc_invalidation_counter.  The classes are held  *)
(* by the caller, so no weak set loses a member.                           *)
(***************************************************************************)
\* C.__mro__ without object, for the classes of test_optuna.py and a
\* subclass of ForceTheIssue
Mro(C) ==
    CASE C = "TunableParameterized" ->
             <<"TunableParameterized", "AbstractParameterized", "Parameterized">>
      [] C = "DirectInheritance" ->
             <<"DirectInheritance", "TunableParameterized", "AbstractParameterized",
               "Parameterized">>
      [] C = "SubForce" -> <<"SubForce", "ForceTheIssue">>
      [] OTHER -> <<C>>
\* the names of the two methods in C.__dict__
ClassDict(C) ==
    CASE C \in {"TunableParameterized", "DirectInheritance", "NotParameterizedNewStyle"} ->
             {"get_tunable", "suggest_params"}
      [] C = "OnlyGetTunable" -> {"get_tunable"}
      [] OTHER -> {}
\* __subclasscheck__, lines 138-184: issubclass(subclass, cls).  The result
\* is what it returns and the objects after the call
RECURSIVE __subclasscheck__(_, _, _)
__subclasscheck__(cls, subclass, st) ==
    LET counter == st["AbstractParameterizedMetaclass"]._abc_invalidation_counter
        \* lines 148-156
        invalidated ==
            IF st[cls]._abc_negative_cache_version < counter
            THEN [st EXCEPT ![cls]._abc_negative_cache = {},
                            ![cls]._abc_negative_cache_version = counter]
            ELSE st
        \* optuna.py lines 113-117 and 326-341: cls.__subclasshook__(subclass)
        ok == IF cls = "TunableParameterized"
                 /\ \A method \in {"get_tunable", "suggest_params"} :
                        \E i \in 1..Len(Mro(subclass)) : method \in ClassDict(Mro(subclass)[i])
              THEN "True" ELSE "NotImplemented"
        \* cls.__subclasses__()
        subclasses == IF cls = "TunableParameterized" THEN <<"DirectInheritance">> ELSE <<>>
        Cached(s) == [ret |-> TRUE, objs |-> [s EXCEPT ![cls]._abc_cache = @ \cup {subclass}]]
        NotCached(s) ==
            [ret |-> FALSE, objs |-> [s EXCEPT ![cls]._abc_negative_cache = @ \cup {subclass}]]
        RECURSIVE BySubclasses(_, _)
        \* lines 178-184
        BySubclasses(i, s) ==
            IF i > Len(subclasses) THEN NotCached(s)
            ELSE LET Checked(r) == IF r.ret THEN Cached(r.objs) ELSE BySubclasses(i + 1, r.objs)
                 IN  Checked(__subclasscheck__(subclasses[i], subclass, s))
    IN  IF subclass \in st[cls]._abc_cache THEN [ret |-> TRUE, objs |-> st]
        ELSE IF st[cls]._abc_negative_cache_version >= counter
                /\ subclass \in st[cls]._abc_negative_cache
        THEN [ret |-> FALSE, objs |-> st]
        ELSE IF ok = "True" THEN Cached(invalidated)
        ELSE IF \E i \in 1..Len(Mro(subclass)) : Mro(subclass)[i] = cls THEN Cached(invalidated)
        \* the registry holds no class made by the metaclass: for them
        \* issubclass(subclass, rcls) is rcls in subclass.__mro__
        ELSE IF \E rcls \in invalidated[cls]._abc_registry :
                    \E i \in 1..Len(Mro(subclass)) : Mro(subclass)[i] = rcls
        THEN Cached(invalidated)
        ELSE BySubclasses(1, invalidated)
\* __instancecheck__, lines 120-136: isinstance(subclass(), cls)
__instancecheck__(cls, subclass, st) ==
    IF subclass \in st[cls]._abc_cache THEN [ret |-> TRUE, objs |-> st]
    ELSE IF /\ st[cls]._abc_negative_cache_version
                   = st["AbstractParameterizedMetaclass"]._abc_invalidation_counter
            /\ subclass \in st[cls]._abc_negative_cache
    THEN [ret |-> FALSE, objs |-> st]
    ELSE __subclasscheck__(cls, subclass, st)
\* a register that leaves the invalidation counter as it is
RegisterWithoutInvalidation(cls, subclass, st) ==
    LET Checked(r) ==
            IF r.ret THEN [ret |-> subclass, objs |-> r.objs]
            ELSE IF \E i \in 1..Len(Mro(cls)) : Mro(cls)[i] = subclass
            THEN [ret |-> "RuntimeError", objs |-> r.objs]
            ELSE [ret |-> subclass,
                  objs |-> [r.objs EXCEPT ![cls]._abc_registry = @ \cup {subclass}]]
    IN  Checked(__subclasscheck__(cls, subclass, st))
\* register, lines 77-96: cls.register(subclass), subclass a class
register(cls, subclass, st) ==
    LET Checked(r) ==
            IF r.ret THEN [ret |-> subclass, objs |-> r.objs]
            ELSE IF \E i \in 1..Len(Mro(cls)) : Mro(cls)[i] = subclass
            THEN [ret |-> "RuntimeError", objs |-> r.objs]
            ELSE [ret |-> subclass,
                  objs |-> [r.objs EXCEPT
                      ![cls]._abc_registry = @ \cup {subclass},
                      !["AbstractParameterizedMetaclass"]._abc_invalidation_counter = @ + 1]]
    IN  Checked(__subclasscheck__(cls, subclass, st))

\* the number of calls on TunableParameterized explored, and the classes
\* they are given
MaxChecks == 3
CheckedClasses ==
    {"Parameterized", "DirectInheritance", "NotParameterizedNewStyle", "OnlyGetTunable",
     "ForceTheIssue", "SubForce"}
\* TunableParameterized.register(C); ret is the list of the calls made, each
\* with what it returned or raised
Register ==
    /\ op = "abc" /\ pc = "call" /\ Len(ret) < MaxChecks
    /\ \E C \in CheckedClasses :
       \E r \in {register("TunableParameterized", C, objs)} :
           /\ objs' = r.objs
           /\ ret' = Append(ret, [function |-> "register", class_ |-> C, returned |-> r.ret])
    /\ UNCHANGED <<file, op, pc, inp, on_missing, allow_None, set_order, walk, dict_,
                   help_dict, warnings, calls, exc>>
\* issubclass(C, TunableParameterized)
IsSubclass ==
    /\ op = "abc" /\ pc = "call" /\ Len(ret) < MaxChecks
    /\ \E C \in CheckedClasses :
       \E r \in {__subclasscheck__("TunableParameterized", C, objs)} :
           /\ objs' = r.objs
           /\ ret' = Append(ret, [function |-> "issubclass", class_ |-> C,
                                  returned |-> r.ret])
    /\ UNCHANGED <<file, op, pc, inp, on_missing, allow_None, set_order, walk, dict_,
                   help_dict, warnings, calls, exc>>
\* isinstance(C(), TunableParameterized)
IsInstanceOf ==
    /\ op = "abc" /\ pc = "call" /\ Len(ret) < MaxChecks
    /\ \E C \in CheckedClasses :
       \E r \in {__instancecheck__("TunableParameterized", C, objs)} :
           /\ objs' = r.objs
           /\ ret' = Append(ret, [function |-> "isinstance", class_ |-> C,
                                  returned |-> r.ret])
    /\ UNCHANGED <<file, op, pc, inp, on_missing, allow_None, set_order, walk, dict_,
                   help_dict, warnings, calls, exc>>

(***************************************************************************)
(* command_line.py: the combination of JSON and YAML files.  A combiner    *)
(* returns the combined value and the warnings issued, each with the       *)
(* multiindex or the key its message reports.                              *)
(***************************************************************************)
\* lines 77-93
_combine_clobber_dict(dicts, warn) ==
    LET IsInstanceOfType(a, b) == a.t = b.t \/ (a.t = "bool" /\ b.t = "int")
        RECURSIVE Items(_, _, _)
        Items(items, i, acc) ==
            IF i > Len(items) THEN acc
            ELSE Items(items, i + 1,
                       [dict_ |-> SetItem(acc.dict_, items[i]),
                        warnings |->
                            IF /\ warn /\ Has(acc.dict_, items[i].s)
                               /\ ~IsInstanceOfType(items[i].e[1], Get(acc.dict_, items[i].s, None))
                               /\ ~IsInstanceOfType(Get(acc.dict_, items[i].s, None), items[i].e[1])
                            THEN Append(acc.warnings, <<items[i].s>>)
                            ELSE acc.warnings])
        RECURSIVE Dicts(_, _)
        Dicts(j, acc) ==
            IF j > Len(dicts) THEN acc ELSE Dicts(j + 1, Items(dicts[j].e, 1, acc))
    IN  Dicts(1, [dict_ |-> PyDict(<<>>), warnings |-> <<>>])
\* a combination in which a later dictionary replaces an earlier one whole
CombineOuterKeysOnly(dicts, warn, multiindex) == _combine_clobber_dict(dicts, FALSE)
\* lines 96-115
RECURSIVE _combine_nested_dicts(_, _, _)
_combine_nested_dicts(dicts, warn, multiindex) ==
    LET IsInstanceOfType(a, b) == a.t = b.t \/ (a.t = "bool" /\ b.t = "int")
        \* lines 99-114: one item of dict_2, of a key that dict_ has
        Collide(acc, key, value, orig) ==
            IF IsDict(value) /\ IsDict(orig)
            THEN LET Merged(r) ==
                         [dict_ |-> SetItem(acc.dict_, Item(key, r.dict_)),
                          warnings |-> acc.warnings \o r.warnings]
                 IN  Merged(_combine_nested_dicts(<<orig, value>>, warn,
                                                  Append(multiindex, key)))
            ELSE [dict_ |-> SetItem(acc.dict_, Item(key, value)),
                  warnings |->
                      IF warn /\ (~IsInstanceOfType(value, orig) \/ ~IsInstanceOfType(orig, value))
                      THEN Append(acc.warnings, multiindex)
                      ELSE acc.warnings]
        RECURSIVE Items(_, _, _)
        Items(items, i, acc) ==
            IF i > Len(items) THEN acc
            ELSE Items(items, i + 1,
                       IF Has(acc.dict_, items[i].s)
                       THEN Collide(acc, items[i].s, items[i].e[1],
                                    Get(acc.dict_, items[i].s, None))
                       ELSE [acc EXCEPT !.dict_ = SetItem(@, items[i])])
        RECURSIVE Dicts(_, _)
        Dicts(j, acc) ==
            IF j > Len(dicts) THEN acc ELSE Dicts(j + 1, Items(dicts[j].e, 1, acc))
    IN  Dicts(1, [dict_ |-> PyDict(<<>>), warnings |-> <<>>])
\* lines 118-139; exc is the exception raised
_combine_container_vals(vals, warn, nested) ==
    LET RECURSIVE Chain(_)
        Chain(i) == IF i > Len(vals) THEN <<>> ELSE vals[i].e \o Chain(i + 1)
        Combined(r) == [exc |-> "", val |-> r.dict_, warnings |-> r.warnings]
    IN  IF Len(vals) = 1 THEN [exc |-> "", val |-> vals[1], warnings |-> <<>>]
        ELSE IF \A i \in 1..Len(vals) : vals[i].t = "list"
        THEN [exc |-> "", val |-> PyList(Chain(1)),
              warnings |-> IF warn THEN <<<<"Source files are all lists">>>> ELSE <<>>]
        ELSE IF \A i \in 1..Len(vals) : IsDict(vals[i])
        THEN (IF nested THEN Combined(_combine_nested_dicts(vals, warn, <<>>))
              ELSE Combined(_combine_clobber_dict(vals, warn)))
        ELSE [exc |-> "ValueError", val |-> None, warnings |-> <<>>]

\* combine_json_files, lines 197-205: the sources as json.load read them,
\* combined and written to the destination
CombineJsonFiles ==
    /\ op = "combine_json_files" /\ pc = "call"
    /\ \E r \in {_combine_container_vals(inp.vals, ~inp.quiet, inp.nested)} :
           /\ ret' = r.val
           /\ warnings' = [i \in 1..Len(r.warnings) |-> Warning(0, "clobbered", r.warnings[i])]
           /\ exc' = IF r.exc = "" THEN NoExc ELSE Exc(r.exc, "Unable to merge", <<>>)
           /\ pc' = IF r.exc = "" THEN "done" ELSE "raised"
           /\ file' = IF r.exc = "" THEN _iterencode(r.val, PyInt(2), 0).chunks ELSE file
    /\ UNCHANGED <<op, inp, on_missing, allow_None, set_order, objs, walk, dict_,
                   help_dict, calls>>

(***************************************************************************)
(* _serializer.py: the nested filter of the reckless modes.                *)
(***************************************************************************)
\* SerializableSerialization.nest_subsets, lines 131-147.  subset is the
\* names in the order iteration visits them
RECURSIVE nest_subsets(_)
nest_subsets(subset) ==
    LET Segments == {"a", "b", "c", "d"}
        Rests == {"a", "b", "c", "d", "b.c", "b.d", "c.d"}
        Dotted(x) == \E k \in Segments, v \in Rests : x = k \o "." \o v
        \* s.split(".", maxsplit=1)
        Split(x) == CHOOSE kv \in Segments \X Rests : x = kv[1] \o "." \o kv[2]
        \* lines 137-143
        Nest(nested_subsets, k, v) ==
            IF IsNone(Get(nested_subsets, k, None)) THEN SetItem(nested_subsets, Item(k, v))
            ELSE SetItem(nested_subsets, Item(k, Update(Get(nested_subsets, k, None), v)))
        RECURSIVE Names(_, _)
        Names(i, nested_subsets) ==
            IF i > Len(subset) THEN nested_subsets
            ELSE Names(i + 1,
                       IF Dotted(subset[i])
                       THEN Nest(nested_subsets, Split(subset[i])[1],
                                 nest_subsets(<<Split(subset[i])[2]>>))
                       ELSE IF Has(nested_subsets, subset[i]) THEN nested_subsets
                       ELSE SetItem(nested_subsets, Item(subset[i], None)))
    IN  Names(1, PyDict(<<>>))

\* one call cls.nest_subsets(inp.subset)
NestSubsets ==
    /\ op = "nest_subsets" /\ pc = "call"
    /\ ret' = IF IsNone(inp.subset) THEN None ELSE nest_subsets(inp.subset.e)
    /\ pc' = "done"
    /\ UNCHANGED <<file, op, inp, on_missing, allow_None, set_order, objs, walk, dict_,
                   help_dict, warnings, calls, exc>>

(***************************************************************************)
(* The calls explored.                                                     *)
(***************************************************************************)
\* the missing-key policies, and a string that is none of them
Policies == {"ignore", "warn", "raise", "error"}
ObjIds == {1, 2}
\* the objects before the call: instance a is fresh, instance b has had two
\* attributes assigned
FreshObjs ==
    LET InstanceName(id) == IF id = 1 THEN "a" ELSE "b"
    IN
    [id \in ObjIds |->
        IF id = 1 THEN Defaults(InstanceName(id))
        ELSE [Defaults(InstanceName(id)) EXCEPT !["integer"] = PyInt(4),
                                                !["string"] = PyStr("bar")]]

\* the sequences without repetition of at most n elements of S
DistinctSeqs(S, n) ==
    UNION {{q \in [1..k -> S] : \A i, j \in 1..k : i # j => q[i] # q[j]} : k \in 0..n}

\* the dictionaries whose keys are, in this order, names
DictsOver(names) ==
    \* the raw values a flat dictionary gives to a key
    LET RawsFor(name) ==
            CASE name = "integer" -> {PyStr("3"), PyStr("abc")}
              [] name = "string" -> {PyInt(3)}
              [] name = "dynamic" -> {PyStr("abc")}
              [] name = "bogus" -> {PyInt(1)}
              [] OTHER -> {None}
    IN
    {PyDict([i \in 1..Len(names) |-> Item(names[i], raws[i])]) :
        raws \in {r \in [1..Len(names) -> UNION {RawsFor(nm) : nm \in Params \cup {"bogus", "zzz"}}] :
                     \A i \in 1..Len(names) : r[i] \in RawsFor(names[i])}}
FlatDicts(names, n) == UNION {DictsOver(q) : q \in DistinctSeqs(names, n)}

\* the state on entry to deserialize_from_dict (lines 1888-1892)
DeserializeCall(d, p, dnd, dtd, policy, an) ==
    /\ op = "deserialize" /\ pc = "loop"
    /\ inp = [dict_ |-> d, parameterized |-> p, only |-> None, name_dict |-> dnd,
              type_dict |-> dtd, include_help |-> FALSE, objs |-> FreshObjs]
    /\ on_missing = policy /\ allow_None = an /\ set_order = "ascending"
    /\ objs = FreshObjs
    /\ d_stack = <<d>> /\ p_stack = <<p>> /\ dnd_stack = <<dnd>> /\ dtd_stack = <<dtd>>
    /\ n_stack = << <<>> >>
    /\ p_queue = <<>> /\ o_queue = <<>> /\ snd_queue = <<>> /\ std_queue = <<>>
    /\ d_queue = <<>> /\ h_queue = <<>>
    /\ dict_ = None /\ help_dict = None /\ ret = None
    /\ warnings = <<>> /\ calls = <<>> /\ exc = NoExc /\ file = <<>>
\* the state on entry to serialize_to_dict (lines 711-718)
SerializeCall(p, only, snd, std, policy, include_help, order) ==
    /\ op = "serialize" /\ pc = "loop"
    /\ inp = [dict_ |-> None, parameterized |-> p, only |-> only, name_dict |-> snd,
              type_dict |-> std, include_help |-> include_help, objs |-> FreshObjs]
    /\ on_missing = policy /\ allow_None = TRUE /\ set_order = order
    /\ objs = FreshObjs
    /\ d_stack = <<>> /\ p_stack = <<>> /\ dnd_stack = <<>> /\ dtd_stack = <<>>
    /\ n_stack = <<>>
    /\ p_queue = <<p>> /\ o_queue = <<only>> /\ snd_queue = <<snd>> /\ std_queue = <<std>>
    /\ d_queue = << <<>> >> /\ h_queue = << <<>> >>
    /\ dict_ = PyDict(<<>>) /\ help_dict = PyDict(<<>>) /\ ret = None
    /\ warnings = <<>> /\ calls = <<>> /\ exc = NoExc /\ file = <<>>

\* one raw value deserialized into one attribute by its default converter
InitConverter ==
    \* raw values handed to one converter
    LET Blocks ==
            {None, PyInt(0), PyInt(3), PyFloat(3), PyBool(TRUE),
             PyStr("None"), PyStr("none"), PyStr("3"), PyStr("12"), PyStr("abc"), PyStr("true"),
             PyList(<<PyInt(1), PyInt(2)>>), PyList(<<PyList(<<PyInt(1), PyInt(2)>>)>>),
             PyTuple(<<PyStr("3"), PyInt(4)>>)}
    IN
    \E name \in Params \ {"name"}, block \in Blocks, an \in BOOLEAN :
        DeserializeCall(PyDict(<<Item(name, block)>>), Obj(1), None, None, "warn", an)
\* a flat dictionary deserialized into one object
InitFlatDeserialize ==
    LET DeserializerNameDicts ==
            {None, PyDict(<<>>),
             PyDict(<<Item("dynamic", Conv("_ThisIsFine"))>>),
             PyDict(<<Item("integer", Conv("_ThisIsFine")), Item("bogus", Conv("_AlsoFine"))>>)}
        DeserializerTypeDicts ==
            {None,
             PyDict(<<KItem("Dynamic", Conv("_AlsoFine"))>>),
             PyDict(<<KItem("Integer", Conv("_AlsoFine"))>>)}
    IN
    \E d \in FlatDicts({"integer", "string", "dynamic", "bogus", "zzz"}, MaxItems),
       dnd \in DeserializerNameDicts, dtd \in DeserializerTypeDicts,
       policy \in Policies :
        DeserializeCall(d, Obj(1), dnd, dtd, policy, TRUE)
\* one object serialized
InitFlatSerialize ==
    \* the values of `only`: None, or the names in the order iteration visits them
    LET Onlys(names, n) ==
            {None} \cup {PyList([i \in 1..Len(q) |-> PyStr(q[i])]) : q \in DistinctSeqs(names, n)}
        SerializerNameDicts ==
            {None,
             PyDict(<<Item("number", Conv("_StupidNumberSerializer"))>>),
             PyDict(<<Item("integer", Conv("_StupidNumberSerializer"))>>)}
        SerializerTypeDicts ==
            {None,
             PyDict(<<KItem("Dynamic", Conv("_MyLittleDynamicSerializer"))>>),
             PyDict(<<KItem("ObjectSelector", Conv("_MyLittleDynamicSerializer")),
                      KItem("Integer", Conv("_MyLittleDynamicSerializer"))>>)}
    IN
    \E only \in Onlys({"integer", "number", "name", "bogus", "object_selector"}, MaxOnly),
       snd \in SerializerNameDicts, std \in SerializerTypeDicts,
       policy \in Policies, include_help \in BOOLEAN,
       order \in {"ascending", "descending"} :
        /\ IsNone(only) \/ order = "ascending"
        /\ SerializeCall(Obj(1), only, snd, std, policy, include_help, order)

\* hierarchical containers: nested dictionaries whose leaves are objects
ObjectTrees ==
    {PyDict(<<Item("a", Obj(1)), Item("b", Obj(2))>>),
     PyDict(<<Item("b", Obj(2)), Item("a", Obj(1))>>),
     PyDict(<<Item("a", PyDict(<<Item("c", Obj(1))>>)), Item("b", Obj(2))>>),
     PyDict(<<Item("a", PyDict(<<Item("c", Obj(1)), Item("d", Obj(2))>>))>>)}
\* the data trees explored against container p: at every node any keys of p
\* and the extra key "x", in any order; at every leaf a flat dictionary
RECURSIVE DataTrees(_)
RECURSIVE DataItems(_, _)
DataItems(p, keys) ==
    \* what the data holds under a key the container does not have
    LET ExtraData == PyDict(<<Item("integer", PyStr("3"))>>)
    IN
    IF keys = <<>> THEN {<<>>}
    ELSE {<<Item(Head(keys), c)>> \o rest :
             c \in (IF Has(p, Head(keys)) THEN DataTrees(Get(p, Head(keys), None))
                    ELSE {ExtraData}),
             rest \in DataItems(p, Tail(keys))}
DataTrees(p) ==
    IF IsParameterized(p) THEN FlatDicts({"integer", "bogus"}, MaxLeafItems)
    ELSE {PyDict(items) :
             items \in UNION {DataItems(p, q) :
                 q \in DistinctSeqs({p.e[i].s : i \in 1..Len(p.e)} \cup {"x"},
                                    Len(p.e) + 1)}}

\* a data tree deserialized into a hierarchical container
InitDeserialize ==
    \* values of deserializer_type_dict for a container: flat, hierarchical
    \* or a combination
    LET TypeTrees ==
            {None,
             PyDict(<<KItem("Integer", Conv("_AlsoFine"))>>),
             PyDict(<<Item("a", PyDict(<<Item("c", PyDict(<<KItem("String", Conv("_AlsoFine"))>>))>>)),
                      KItem("Integer", Conv("_AlsoFine"))>>),
             PyDict(<<KItem("Integer", Conv("_AlsoFine")),
                      Item("a", PyDict(<<KItem("Integer", Conv("_ThisIsFine"))>>))>>),
             PyDict(<<KItem("Integer", Conv("_AlsoFine")), Item("b", None)>>),
             PyDict(<<Item("a", None), KItem("Integer", Conv("_ThisIsFine"))>>)}
        RECURSIVE Matching(_)
        \* the data trees with no key but those of the container
        Matching(d) ==
            IsDict(d) => \A i \in 1..Len(d.e) : d.e[i].s # "x" /\ Matching(d.e[i].e[1])
    IN
    \E p \in ObjectTrees, policy \in Policies, dtd \in TypeTrees :
        \E d \in DataTrees(p) :
            /\ IsNone(dtd) \/ (policy = "raise" /\ Matching(d))
            /\ DeserializeCall(d, p, None, dtd, policy, TRUE)
\* a hierarchical container serialized
InitSerialize ==
    \* values of `only` for a container: dictionaries shaped like it
    LET OnlyTrees ==
            {None,
             PyDict(<<Item("a", PyList(<<PyStr("number")>>))>>),
             PyDict(<<Item("b", PyList(<<PyStr("string"), PyStr("integer")>>)),
                      Item("a", PyDict(<<Item("c", PyList(<<PyStr("number"), PyStr("bogus")>>))>>))>>),
             PyDict(<<Item("a", PyDict(<<Item("d", PyList(<<>>))>>)), Item("b", None)>>)}
        \* values of serializer_type_dict for a container: flat, hierarchical
        \* or a combination
        TypeTrees ==
            {None,
             PyDict(<<KItem("Dynamic", Conv("_MyLittleDynamicSerializer"))>>),
             PyDict(<<Item("a", PyDict(<<Item("c", PyDict(<<KItem("Number", Conv("_MyLittleDynamicSerializer"))>>))>>)),
                      KItem("Dynamic", Conv("_MyLittleDynamicSerializer"))>>),
             PyDict(<<KItem("Dynamic", Conv("_MyLittleDynamicSerializer")),
                      Item("a", PyDict(<<KItem("Dynamic", Conv("_StupidNumberSerializer"))>>))>>),
             PyDict(<<KItem("Dynamic", Conv("_MyLittleDynamicSerializer")), Item("b", None)>>),
             PyDict(<<Item("a", None), KItem("Number", Conv("_MyLittleDynamicSerializer"))>>)}
    IN
    \E p \in ObjectTrees, only \in OnlyTrees, policy \in Policies,
       include_help \in BOOLEAN, std \in TypeTrees :
        /\ IsNone(std) \/ (IsNone(only) /\ policy = "raise" /\ ~include_help)
        /\ SerializeCall(p, only, None, std, policy, include_help, "ascending")

\* the state on entry to a call of another function of the package, given
\* its name and its arguments
EntryTo(function, arguments) ==
    /\ op = function /\ pc = "call" /\ inp = arguments
    /\ on_missing = "raise" /\ allow_None = TRUE /\ set_order = "ascending"
    /\ objs = FreshObjs
    /\ d_stack = <<>> /\ p_stack = <<>> /\ dnd_stack = <<>> /\ dtd_stack = <<>>
    /\ n_stack = <<>>
    /\ p_queue = <<>> /\ o_queue = <<>> /\ snd_queue = <<>> /\ std_queue = <<>>
    /\ d_queue = <<>> /\ h_queue = <<>>
    /\ dict_ = None /\ help_dict = None /\ ret = None
    /\ warnings = <<>> /\ calls = <<>> /\ exc = NoExc /\ file = <<>>

\* a Date attribute serialized
InitSerializeDate ==
    \* the format arguments of DefaultDateSerializer explored
    LET DateFormats ==
            {None, DEFAULT_DATE_FORMAT, PyStr(FORMAT_DAY), PyTuple(<<>>),
             PyTuple(<<PyStr(FORMAT_DAY), PyStr(FORMAT_SECONDS)>>),
             PyTuple(<<PyStr(FORMAT_SECONDS), PyStr(FORMAT_DAY)>>),
             PyTuple(<<PyStr(FORMAT_TIME), PyStr(FORMAT_MICROSECONDS)>>),
             PyTuple(<<PyStr(FORMAT_TIME)>>)}
    IN
    \E val \in DateTimes \cup {None}, format \in DateFormats :
        EntryTo("serialize_date", [val |-> val, format |-> format])

\* a raw value, or a pair of raw values, deserialized into a date
InitDeserializeDate ==
    \* the format arguments of the date deserializers explored
    LET DateFormats ==
            {None, PyStr(FORMAT_DAY),
             PyTuple(<<PyStr(FORMAT_MICROSECONDS), PyStr(FORMAT_SECONDS), PyStr(FORMAT_DAY)>>)}
        \* raw values: dates, what DefaultDateSerializer writes for them,
        \* ordinals, and strings no format reads
        DateBlocks ==
            DateTimes \cup {_timestamp(dt) : dt \in DateTimes}
              \cup {PyStr(Strftime(dt, FORMAT_SECONDS)) : dt \in DateTimes}
              \cup {None, PyInt(719163), PyInt(719164), PyStr("12"), PyStr("1970-01"),
                    PyStr("abc")}
        RangeElements ==
            {DateTime(0, 1, 0), DateTime(1, 0, 1), _timestamp(DateTime(0, 1, 1)),
             PyInt(719164), PyStr(Strftime(DateTime(1, 3661, 0), FORMAT_SECONDS)),
             PyStr(Strftime(DateTime(0, 0, 0), FORMAT_DAY)), PyStr("1970-01"), PyStr("abc")}
    IN
    \E format \in DateFormats, numpy \in BOOLEAN :
        \/ \E block \in DateBlocks :
               EntryTo("deserialize_date",
                       [format |-> format, block |-> block, numpy |-> numpy])
        \/ \E a \in RangeElements, b \in RangeElements :
               EntryTo("deserialize_date_range",
                       [format |-> format, block |-> PyTuple(<<a, b>>), numpy |-> numpy])
        \/ \E block \in {None, PyInt(3), PyList(<<DateTime(0, 1, 0)>>)} :
               EntryTo("deserialize_date_range",
                       [format |-> format, block |-> block, numpy |-> numpy])

\* a raw value of an INI file deserialized into an array
InitDeserializeArray ==
    \E block \in {None, PyInt(3), PyStr("a.npy"), PyStr("a.csv"), PyStr("[1, 2]"),
                  PyStr("3"), PyStr("null"), PyStr("\"a.npy\""), PyStr("abc")},
       readable \in BOOLEAN :
        EntryTo("deserialize_array", [block |-> block, readable |-> readable])

\* the classes of abc.py and optuna.py as the metaclass made them (lines
\* 67-72), before any check or registration
InitAbc ==
    /\ op = "abc" /\ pc = "call" /\ inp = [cls |-> "TunableParameterized"]
    /\ objs = [c \in {"AbstractParameterizedMetaclass", "TunableParameterized",
                      "DirectInheritance"} |->
                  IF c = "AbstractParameterizedMetaclass"
                  THEN [_abc_invalidation_counter |-> 0]
                  ELSE [_abc_registry |-> {}, _abc_cache |-> {},
                        _abc_negative_cache |-> {}, _abc_negative_cache_version |-> 0]]
    /\ on_missing = "raise" /\ allow_None = TRUE /\ set_order = "ascending"
    /\ d_stack = <<>> /\ p_stack = <<>> /\ dnd_stack = <<>> /\ dtd_stack = <<>>
    /\ n_stack = <<>>
    /\ p_queue = <<>> /\ o_queue = <<>> /\ snd_queue = <<>> /\ std_queue = <<>>
    /\ d_queue = <<>> /\ h_queue = <<>>
    /\ dict_ = None /\ help_dict = None /\ ret = <<>>
    /\ warnings = <<>> /\ calls = <<>> /\ exc = NoExc /\ file = <<>>

\* the number of source files combined
MaxSources == 3
\* source files combined into one
InitCombine ==
    \* what the source files hold
    LET Documents ==
            {PyDict(<<Item("a", PyDict(<<Item("b", PyDict(<<Item("c", None)>>)),
                                         Item("d", PyBool(TRUE))>>))>>),
             PyDict(<<Item("a", PyDict(<<Item("b", PyDict(<<Item("e", PyInt(1))>>))>>)),
                      Item("f", PyStr("g"))>>),
             PyDict(<<Item("f", PyDict(<<Item("h", PyInt(1))>>)), Item("a", PyInt(3))>>),
             PyDict(<<Item("f", PyStr("g")),
                      Item("a", PyDict(<<Item("d", PyInt(1)), Item("b", PyInt(2))>>))>>),
             PyDict(<<>>),
             PyList(<<PyStr("foo")>>),
             PyStr("foo")}
    IN
    \E n \in 1..MaxSources : \E vals \in [1..n -> Documents], nested, quiet \in BOOLEAN :
        EntryTo("combine_json_files", [vals |-> vals, nested |-> nested, quiet |-> quiet])

\* the number of names in a subset
MaxSubset == 3
\* a subset of (dotted) parameter names nested
InitNestSubsets ==
    \E q \in DistinctSeqs({"a", "b", "a.b", "a.c", "a.b.c", "a.b.d", "b.c.d"}, MaxSubset) :
    \E subset \in {None, Val("set", 0, "", q)} :
        EntryTo("nest_subsets", [subset |-> subset])

InitSerializeToFile ==
    \* serialize_to_ini and serialize_to_json given a file object, one object
    \* or a container of objects, and the names to write
    LET IniContainers ==
            ObjectTrees \cup
            {Obj(1), PyDict(<<>>),
             PyDict(<<Item("a", Obj(1)), Item("DEFAULT", Obj(2))>>),
             PyDict(<<Item("a", Obj(1)), Item("b", PyDict(<<>>))>>)}
    IN
    \E p \in IniContainers,
       names \in {None, PyList(<<PyStr("number"), PyStr("numeric_tuple")>>),
                  PyList(<<PyStr("string")>>)},
       include_help \in BOOLEAN, function \in {"serialize_to_ini", "serialize_to_json"},
       indent \in {None, PyInt(2)}, one_param_section \in {None, PyStr("DEFAULT")} :
        /\ function = "serialize_to_ini" => indent = None
        /\ function = "serialize_to_json" => ~include_help
        /\ (function = "serialize_to_json" \/ ~IsParameterized(p))
               => one_param_section = None
        /\ EntryTo(function,
                   [dict_ |-> None, parameterized |-> p,
                    only |-> IF IsNone(names) \/ IsParameterized(p) THEN names
                             ELSE PyDict([i \in 1..Len(p.e) |->
                                      Item(p.e[i].s,
                                           IF IsParameterized(p.e[i].e[1]) THEN names
                                           ELSE PyDict([j \in 1..Len(p.e[i].e[1].e) |->
                                                    Item(p.e[i].e[1].e[j].s, names)]))]),
                    name_dict |-> None, type_dict |-> None,
                    include_help |-> include_help, objs |-> FreshObjs,
                    help_prefix |-> "#", indent |-> indent,
                    one_param_section |-> one_param_section])

\* ---------------------------------------------------------------------
\* YAML backends (_file_serialization.py, config.py)

\* config.YAML_MODULE_PRIORITIES as shipped
YAML_MODULE_PRIORITIES == <<"ruamel.yaml", "ruamel_yaml", "yaml">>

\* a python module object, the value of "import name"
Module(name) == Val("module", 0, name, <<>>)

\* serialize_from_obj_to_yaml: the for loop over the priorities returns at the
\* first entry whose import succeeds and raises at the first entry that is
\* none of the three names it knows.  ret records the module whose dump ran;
\* the document it writes is not modelled.
SerializeFromObjToYaml ==
    /\ op = "serialize_from_obj_to_yaml" /\ pc = "call"
    /\ LET names == inp.priorities
           Imported(name) == IF name = "pyyaml" THEN "yaml" ELSE name
           Known(name) == name \in {"ruamel.yaml", "ruamel_yaml", "pyyaml"}
           Leaves(i) == ~Known(names[i]) \/ Imported(names[i]) \in inp.importable
           Left == {i \in 1..Len(names) : Leaves(i)}
           First == CHOOSE i \in Left : \A j \in Left : i <= j
       IN  IF Left = {}
           THEN /\ exc' = Exc("ImportError", "Could not import any of", <<>>)
                /\ pc' = "raised" /\ ret' = ret
           ELSE IF ~Known(names[First])
           THEN /\ exc' = Exc("ValueError", "Invalid value in config.YAML_MODULE_PRIORITIES", <<>>)
                /\ pc' = "raised" /\ ret' = ret
           ELSE /\ ret' = Module(Imported(names[First]))
                /\ pc' = "done" /\ exc' = exc
    /\ UNCHANGED <<file, op, inp, on_missing, allow_None, set_order, objs, walk, dict_,
                   help_dict, warnings, calls>>

\* deserialize_from_yaml_to_obj: the loop breaks at the first entry whose import
\* succeeds, raises at the first unknown entry, and raises ImportError when it
\* ends with yaml_loader still None.  ret records the module of yaml_loader.
DeserializeFromYamlToObj ==
    /\ op = "deserialize_from_yaml_to_obj" /\ pc = "call"
    /\ LET names == inp.priorities
           Imported(name) == IF name \in {"ruamel.yaml", "ruamel_yaml"} THEN name ELSE "yaml"
           Known(name) == name \in {"ruamel.yaml", "ruamel_yaml"} \/ name = "pyyaml"
           Leaves(i) == ~Known(names[i]) \/ Imported(names[i]) \in inp.importable
           Left == {i \in 1..Len(names) : Leaves(i)}
           First == CHOOSE i \in Left : \A j \in Left : i <= j
           yaml_loader == IF Left = {} THEN None ELSE Module(Imported(names[First]))
       IN  IF Left # {} /\ ~Known(names[First])
           THEN /\ exc' = Exc("ValueError", "Invalid value in config.YAML_MODULE_PRIORITIES", <<>>)
                /\ pc' = "raised" /\ ret' = ret
           ELSE IF yaml_loader = None
           THEN /\ exc' = Exc("ImportError", "Could not import any of", <<>>)
                /\ pc' = "raised" /\ ret' = ret
           ELSE /\ ret' = yaml_loader
                /\ pc' = "done" /\ exc' = exc
    /\ UNCHANGED <<file, op, inp, on_missing, allow_None, set_order, objs, walk, dict_,
                   help_dict, warnings, calls>>

\* the YAML calls explored: every set of installed YAML packages, under the
\* shipped priorities and under the ones tests/conftest.py installs
InitYaml ==
    \E function \in {"serialize_from_obj_to_yaml", "deserialize_from_yaml_to_obj"},
       importable \in SUBSET {"ruamel.yaml", "ruamel_yaml", "yaml"},
       priorities \in {YAML_MODULE_PRIORITIES, <<"pyyaml">>, <<>>,
                       <<"ruamel_yaml", "ruamel.yaml">>} :
        EntryTo(function, [importable |-> importable, priorities |-> priorities])

\* ---------------------------------------------------------------------
\* Read actions under ArgumentParser.parse_args (_classic_argparse.py,
\* _serializer.py).  One parser holds one action whose flag is optional; the
\* action's target is object 1.  A file given on the command line is
\* represented by the object the file loader returns for it.

\* the number of parse_args calls made on the parser
MaxParses == 3
\* the number of files one flag takes under nargs = "+"
MaxFiles == 2

\* the mutation: the namespace gets an instance other than the target
DefaultOtherInstance(action) ==
    IF action = "DeserializationAction" THEN None ELSE Obj(2)

\* the default the action hands to argparse.Action.__init__, which parse_args
\* stores in the namespace before it reads the command line:
\* ParameterizedFileReadAction passes default=self.parameterized,
\* DeserializationAction leaves it None
NamespaceDefault(action) ==
    IF action = "DeserializationAction" THEN None ELSE Obj(1)

\* the mutation: only the first file is deserialized
ReadFirstFileOnly(values, policy, st) ==
    IF IsNone(values) \/ values = Obj(1) THEN st
    ELSE _deserialize_from_dict_flat(IF values.t = "list" THEN values.e[1] ELSE values,
                                     1, TRUE, None, None, policy, st)

\* ParameterizedFileReadAction.__call__ with the deserialize of
\* ParameterizedJsonReadAction: every file, in the order given, is
\* deserialized into self.parameterized; an exception ends the loop and
\* leaves __call__.  st is the record [objs, warnings, calls, exc].
ParameterizedFileReadAction(values, policy, st) ==
    LET files == IF values.t = "list" THEN values.e ELSE <<values>>
        RECURSIVE Each(_, _)
        Each(i, s) ==
            IF i > Len(files) \/ s.exc # NoExc THEN s
            ELSE Each(i + 1, _deserialize_from_dict_flat(files[i], 1, TRUE, None, None,
                                                         policy, s))
    IN  IF IsNone(values) \/ values = Obj(1) THEN st ELSE Each(1, st)

\* DeserializationAction.__call__: every file is deserialized by
\* class_.param.deserialize_parameters and a new instance is built from the
\* result; any exception of either becomes argparse.ArgumentError.  The
\* library call is taken to fail on a file that is not a mapping, names no
\* declared attribute or holds a value the attribute does not accept.  None
\* stands for self.const, the value of a flag given without a file.
DeserializationAction(values, an) ==
    LET values_ == IF IsNone(values) THEN <<>>
                   ELSE IF values.t = "list" THEN values.e ELSE <<values>>
        Fails(value) ==
            \/ ~IsDict(value)
            \/ \E i \in 1..Len(value.e) :
                   \/ value.e[i].s \notin Params
                   \/ ~Validates(an, value.e[i].s, value.e[i].e[1])
        Instance(value) == Val("Parameterized", 0, "", value.e)
        Built == [i \in 1..Len(values_) |-> Instance(values_[i])]
    IN  IF \E i \in 1..Len(values_) : Fails(values_[i]) THEN Raise("ArgumentError")
        ELSE IF IsNone(values) \/ values.t = "list" THEN Ok(PyList(Built))
        ELSE Ok(Built[1])

\* parser.parse_args(argv): the namespace gets the action's default, then, if
\* the flag is on the command line, the action is called with the files
\* argparse opened for it.  parse_args turns an ArgumentError into
\* parser.error, which exits with status 2; any other exception of the
\* action leaves parse_args as it is.  ret is the namespace's attribute dest.
ParseArgs ==
    /\ op = "parse_args" /\ inp.parses < MaxParses
    /\ LET \* what the file loader returns for the files on disk
           ConfigFiles ==
               {PyDict(<<Item("integer", PyInt(3))>>),
                PyDict(<<Item("integer", PyStr("12"))>>),
                PyDict(<<Item("string", PyStr("x")), Item("integer", PyInt(5))>>),
                PyDict(<<Item("integer", PyStr("abc"))>>),
                PyDict(<<Item("bogus", PyInt(1)), Item("string", PyStr("y"))>>),
                PyDict(<<Item("string", PyStr("z")), Item("integer", PyStr("abc"))>>)}
           \* what argparse hands to the action under nargs
           Values ==
               IF inp.nargs = "?" THEN {None} \cup ConfigFiles
               ELSE {PyList(q) : q \in UNION {[1..k -> ConfigFiles] : k \in 1..MaxFiles}}
           st0 == [objs |-> objs, warnings |-> <<>>, calls |-> <<>>, exc |-> NoExc]
       IN  \E given \in BOOLEAN, values \in Values :
               /\ inp' = [inp EXCEPT !.parses = @ + 1, !.given = given,
                                     !.flagged = @ \/ given,
                                     !.values = IF given THEN values ELSE None,
                                     !.objs = objs]
               /\ IF inp.action = "DeserializationAction"
                  THEN \E r \in {IF given THEN DeserializationAction(values, allow_None)
                                 ELSE Ok(NamespaceDefault(inp.action))} :
                           /\ exc' = IF r.exc = "" THEN NoExc
                                     ELSE Exc("SystemExit", "error deserializing", <<>>)
                           /\ pc' = IF r.exc = "" THEN "done" ELSE "raised"
                           /\ ret' = r.val
                           /\ warnings' = <<>> /\ calls' = <<>> /\ objs' = objs
                  ELSE \E st \in {IF given
                                  THEN ParameterizedFileReadAction(values, on_missing, st0)
                                  ELSE st0} :
                           /\ exc' = st.exc
                           /\ pc' = IF st.exc = NoExc THEN "done" ELSE "raised"
                           /\ ret' = IF st.exc = NoExc THEN NamespaceDefault(inp.action)
                                     ELSE None
                           /\ warnings' = st.warnings /\ calls' = st.calls
                           /\ objs' = st.objs
    /\ UNCHANGED <<file, op, on_missing, allow_None, set_order, walk, dict_, help_dict>>

\* the parsers explored: one read action, of either family, added with an
\* optional flag, before the first parse_args
InitParser ==
    \E action \in {"ParameterizedJsonReadAction", "DeserializationAction"},
       nargs \in {"?", "+"}, policy \in {"ignore", "warn", "raise"} :
        /\ op = "parse_args" /\ pc = "call"
        /\ inp = [action |-> action, nargs |-> nargs, parameterized |-> Obj(1),
                  parses |-> 0, given |-> FALSE, flagged |-> FALSE, values |-> None,
                  objs |-> FreshObjs]
        /\ on_missing = policy /\ allow_None = TRUE /\ set_order = "ascending"
        /\ objs = FreshObjs
        /\ d_stack = <<>> /\ p_stack = <<>> /\ dnd_stack = <<>> /\ dtd_stack = <<>>
        /\ n_stack = <<>>
        /\ p_queue = <<>> /\ o_queue = <<>> /\ snd_queue = <<>> /\ std_queue = <<>>
        /\ d_queue = <<>> /\ h_queue = <<>>
        /\ dict_ = None /\ help_dict = None /\ ret = None
        /\ warnings = <<>> /\ calls = <<>> /\ exc = NoExc /\ file = <<>>

\* ---------------------------------------------------------------------
\* suggest_param_dict (optuna.py).  The objects of the container are objects
\* 1 and 2; the deep copy of object k is object k + 2.  Object 0 is the
\* collection the caller passed as `only`, object 5 the set the function
\* binds to `only` itself.  Every other object has the attributes foo and bar
\* of FirstObject in test_suggest_param_dict.

\* cls.get_tunable() of the classes explored: FirstObject of
\* test_suggest_param_dict, and a class with a '.' in a tunable name, like
\* Renegade of test_get_param_dict_tunable
get_tunable(class_) ==
    IF class_ = "Renegade" THEN {"bar", "b.foo"} ELSE {"foo", "bar"}

\* "." in s, for the keys and tunable names explored
HasDot(s) == s \in {"a.b", "b.foo"}

\* the mutation: the container itself is handed on, not a copy
NoCopy(x) == x

\* copy.deepcopy of a container
RECURSIVE deepcopy(_)
deepcopy(x) ==
    IF IsParameterized(x) THEN Obj(x.n + 2)
    ELSE IF IsDict(x)
    THEN PyDict([i \in 1..Len(x.e) |-> Item(x.e[i].s, deepcopy(x.e[i].e[1]))])
    ELSE x

\* the mutation: mappings inside the container are not crawled
TopLevelOnly(param_dict, on_decimal, prefix) ==
    [tunable_params |->
         PyDict(SelectSeq(param_dict.e, LAMBDA item : IsParameterized(item.e[1]))),
     warnings |-> <<>>, exc |-> ""]

\* _tunable_params_from_param_dict: the ordered dictionary dotted key ->
\* tunable object, the warnings issued and the exception raised
RECURSIVE _tunable_params_from_param_dict(_, _, _)
_tunable_params_from_param_dict(param_dict, on_decimal, prefix) ==
    LET RECURSIVE Each(_, _)
        Each(i, acc) ==
            IF i > Len(param_dict.e) \/ acc.exc # "" THEN acc
            ELSE LET key == param_dict.e[i].s
                     value == param_dict.e[i].e[1]
                     flagged == HasDot(key) /\ on_decimal # "ignore"
                     dotted == IF prefix # "" THEN prefix \o "." \o key ELSE key
                     Merged(a, r) ==
                         [tunable_params |-> Update(a.tunable_params, r.tunable_params),
                          warnings |-> a.warnings \o r.warnings, exc |-> r.exc]
                     Found(a) ==
                         IF IsParameterized(value)
                         THEN [a EXCEPT !.tunable_params = SetItem(@, Item(dotted, value))]
                         ELSE IF IsDict(value)
                         THEN Merged(a, _tunable_params_from_param_dict(value, on_decimal,
                                                                        dotted))
                         ELSE a
                 IN  IF flagged /\ on_decimal = "raise"
                     THEN [acc EXCEPT !.exc = "ValueError"]
                     ELSE IF flagged
                     THEN Each(i + 1, Found([acc EXCEPT !.warnings =
                              Append(@, Warning(0, "key with '.' in its name", <<key>>))]))
                     ELSE Each(i + 1, Found(acc))
    IN  Each(1, [tunable_params |-> PyDict(<<>>), warnings |-> <<>>, exc |-> ""])

\* suggest_param_dict with get_param_dict_tunable: the names to suggest, the
\* deep copy, the crawl of the copy and one suggest_params call per entry of
\* tunable_params; suggest_params is that of FirstObject, which sets foo and
\* bar to whether `only` holds them.  The names of `only` that start with
\* prefix and whose rest is in get_tunable() are the x in get_tunable() with
\* prefix + x in `only`.
SuggestParamDict ==
    /\ op = "suggest_param_dict" /\ pc = "call"
    /\ LET Class(id) == inp.classes[IF id > 2 THEN id - 2 ELSE id]
           second_pass == ~inp.only.given
           \* get_param_dict_tunable(global_dict, on_decimal)
           first == _tunable_params_from_param_dict(inp.global_dict, inp.on_decimal, "")
           Entries(t) == t.tunable_params.e
           Decimal(e) == {x \in get_tunable(Class(e.e[1].n)) : HasDot(x)}
           Tunable ==
               [exc |-> IF first.exc # "" THEN first.exc
                        ELSE IF /\ inp.on_decimal = "raise"
                                /\ \E i \in 1..Len(Entries(first)) :
                                       Decimal(Entries(first)[i]) # {}
                        THEN "ValueError" ELSE "",
                warnings |->
                    first.warnings \o
                    [i \in 1..Len(SelectSeq(Entries(first), LAMBDA e :
                                      inp.on_decimal = "warn" /\ Decimal(e) # {})) |->
                        Warning(0, "parameters with '.' in their name", <<>>)],
                names |-> UNION {{Entries(first)[i].s \o "." \o x :
                                      x \in get_tunable(Class(Entries(first)[i].e[1].n))} :
                                 i \in 1..Len(Entries(first))}]
           param_dict == deepcopy(inp.global_dict)
           tunable_params ==
               _tunable_params_from_param_dict(
                   param_dict, IF second_pass THEN "ignore" ELSE inp.on_decimal, "")
           RECURSIVE Each(_, _)
           Each(i, st) ==
               IF i > Len(Entries(tunable_params)) THEN st
               ELSE LET prefix == Entries(tunable_params)[i].s \o "."
                        param_ == Entries(tunable_params)[i].e[1].n
                        prefix_only == {x \in get_tunable(Class(param_)) :
                                            prefix \o x \in st.objs[5].names}
                    IN  Each(i + 1,
                             [objs |-> [st.objs EXCEPT
                                           ![5].names = @ \ {prefix \o x : x \in prefix_only},
                                           ![param_] =
                                               [foo |-> PyBool("foo" \in prefix_only),
                                                bar |-> PyBool("bar" \in prefix_only)]],
                              calls |-> Append(st.calls,
                                               [obj |-> param_, only |-> prefix_only,
                                                prefix |-> prefix])])
           \* the heap after set(only), or get_param_dict_tunable, and deepcopy
           copied == [id \in 0..5 |->
                         IF id <= 2 THEN objs[id]
                         ELSE IF id <= 4 THEN objs[id - 2]
                         ELSE [names |-> IF second_pass THEN Tunable.names
                                         ELSE objs[0].names]]
           before == IF second_pass THEN Tunable.warnings ELSE <<>>
       IN  IF second_pass /\ Tunable.exc # ""
           THEN /\ exc' = Exc(Tunable.exc, "with '.' in", <<>>)
                /\ pc' = "raised"
                /\ warnings' = first.warnings
                /\ UNCHANGED <<objs, calls, ret>>
           ELSE IF tunable_params.exc # ""
           THEN /\ exc' = Exc(tunable_params.exc, "with '.' in", <<>>)
                /\ pc' = "raised"
                /\ warnings' = before \o tunable_params.warnings
                /\ UNCHANGED <<objs, calls, ret>>
           ELSE \E st \in {Each(1, [objs |-> copied, calls |-> <<>>])} :
                    /\ objs' = st.objs
                    /\ calls' = st.calls
                    /\ warnings' =
                           before \o tunable_params.warnings \o
                           (IF inp.warn /\ st.objs[5].names # {}
                            THEN <<Warning(0, "extra parameters", st.objs[5].names)>>
                            ELSE <<>>)
                    /\ ret' = param_dict
                    /\ pc' = "done" /\ exc' = exc
    /\ UNCHANGED <<file, op, inp, on_missing, allow_None, set_order, walk, dict_,
                   help_dict>>

\* the calls of suggest_param_dict explored: the container of
\* test_suggest_param_dict, containers with an empty key or a '.' in a key,
\* one object under two keys, and every `only` of at most two names
InitSuggestParamDict ==
    LET GlobalDicts ==
            {PyDict(<<Item("again", PyDict(<<Item("no touching", PyStr("me"))>>)),
                      Item("foo", Obj(1)),
                      Item("bar", PyDict(<<Item("foo", Obj(2))>>))>>),
             PyDict(<<Item("a.b", Obj(1)), Item("a", PyDict(<<Item("b", Obj(2))>>))>>),
             PyDict(<<Item("a", Obj(2)), Item("a.b", Obj(1))>>),
             PyDict(<<Item("", PyDict(<<Item("x", Obj(1))>>)), Item("x", Obj(2))>>),
             PyDict(<<Item("a", Obj(1)), Item("b", Obj(1))>>),
             PyDict(<<>>)}
        Names == {"foo", "foo.foo", "foo.bar", "bar.foo.bar", "bar.foo.baz",
                  "a.b.foo", "a.b.bar", "a.bar", "x.foo", "b.bar"}
        Onlys2 == {S \in SUBSET Names : Cardinality(S) <= 2}
    IN
    \E global_dict \in GlobalDicts, given \in BOOLEAN, names \in Onlys2,
       on_decimal \in {"ignore", "warn", "raise"}, warn \in BOOLEAN,
       class_ \in {"FirstObject", "Renegade"} :
        /\ given \/ names = {}
        /\ op = "suggest_param_dict" /\ pc = "call"
        /\ inp = [global_dict |-> global_dict,
                  only |-> [given |-> given, names |-> names],
                  on_decimal |-> on_decimal, warn |-> warn,
                  classes |-> <<"FirstObject", class_>>]
        /\ objs = [id \in 0..2 |->
                      IF id = 0 THEN [names |-> names]
                      ELSE [foo |-> PyBool(FALSE), bar |-> PyBool(FALSE)]]
        /\ on_missing = "warn" /\ allow_None = TRUE /\ set_order = "ascending"
        /\ d_stack = <<>> /\ p_stack = <<>> /\ dnd_stack = <<>> /\ dtd_stack = <<>>
        /\ n_stack = <<>>
        /\ p_queue = <<>> /\ o_queue = <<>> /\ snd_queue = <<>> /\ std_queue = <<>>
        /\ d_queue = <<>> /\ h_queue = <<>>
        /\ dict_ = None /\ help_dict = None /\ ret = None
        /\ warnings = <<>> /\ calls = <<>> /\ exc = NoExc /\ file = <<>>

Init ==
    \/ InitConverter
    \/ InitFlatDeserialize
    \/ InitFlatSerialize
    \/ InitDeserialize
    \/ InitSerialize
    \/ InitSerializeDate
    \/ InitSerializeToFile
    \/ InitYaml
    \/ InitParser
    \/ InitSuggestParamDict
    \/ InitDeserializeDate
    \/ InitDeserializeArray
    \/ InitAbc
    \/ InitCombine
    \/ InitNestSubsets
Next ==
    \/ DeserializeLeaf
    \/ DeserializeNode
    \/ SerializeLeaf
    \/ SerializeNode
    \/ SerializeDate
    \/ SerializeToDict
    \/ SerializeToIni
    \/ SerializeFromObjToJson
    \/ SerializeFromObjToYaml
    \/ DeserializeFromYamlToObj
    \/ ParseArgs
    \/ SuggestParamDict
    \/ DeserializeDate
    \/ DeserializeDateRange
    \/ DeserializeArray
    \/ Register
    \/ IsSubclass
    \/ IsInstanceOf
    \/ CombineJsonFiles
    \/ NestSubsets
Spec == Init /\ [][Next]_vars

(***************************************************************************)
(* Properties.                                                             *)
(***************************************************************************)
\* the call was given one object, not a hierarchical container
FlatCall == IsParameterized(inp.parameterized)
Ended == pc \in {"done", "raised"}
NamesCalled == [i \in 1..Len(calls) |-> calls[i].name]
\* the converter the precedence rule names for an attribute, given the two
\* override dictionaries, the registry of defaults and the backup converter
ByPrecedence(name, nd, td, registry, backup) ==
    LET byName == IF IsNone(nd) THEN {}
                  ELSE {i \in 1..Len(nd.e) : nd.e[i].t = "item" /\ nd.e[i].s = name}
        byType == IF IsNone(td) THEN {}
                  ELSE {i \in 1..Len(td.e) : td.e[i].t = "kitem" /\ td.e[i].s = KindOf(name)}
        byDefault == {i \in 1..Len(registry.e) : registry.e[i].s = KindOf(name)}
    IN  IF byName # {} THEN nd.e[CHOOSE i \in byName : TRUE].e[1].s
        ELSE IF byType # {} THEN td.e[CHOOSE i \in byType : TRUE].e[1].s
        ELSE IF byDefault # {} THEN registry.e[CHOOSE i \in byDefault : TRUE].e[1].s
        ELSE backup.s

\* C1: every converter call, serializing or deserializing, uses the
\* converter of the name override of the attribute if there is one, else of
\* the type override of its exact kind, else the registry default of that
\* kind, else the backup converter
C1_ConverterPrecedence ==
    \A i \in 1..Len(calls) :
        op # "suggest_param_dict" =>
        calls[i].conv =
            ByPrecedence(calls[i].name, calls[i].name_dict, calls[i].type_dict,
                         IF op \in {"deserialize", "parse_args"} THEN DEFAULT_DESERIALIZER_DICT
                         ELSE DEFAULT_SERIALIZER_DICT,
                         IF op \in {"deserialize", "parse_args"} THEN DEFAULT_BACKUP_DESERIALIZER
                         ELSE DEFAULT_BACKUP_SERIALIZER)
\* a deserialization in which the name override beat the type override of
\* "integer", and a partial type-override map left "string" to its default
C1_Witness ==
    /\ op = "deserialize" /\ pc = "done"
    /\ \E i \in 1..Len(calls) :
           /\ calls[i].name = "integer" /\ calls[i].conv = "_ThisIsFine"
           /\ ~IsNone(calls[i].type_dict) /\ HasType(calls[i].type_dict, "Integer")
    /\ \E i \in 1..Len(calls) :
           /\ calls[i].name = "string" /\ calls[i].conv = "DefaultStringDeserializer"
           /\ ~IsNone(calls[i].type_dict)

Declared(keys) == SelectSeq(keys, LAMBDA k : k \in Params)
Undeclared(keys) == SelectSeq(keys, LAMBDA k : k \notin Params)
\* the position of the first undeclared key, past the end if there is none
FirstUndeclared(keys) ==
    IF \E i \in 1..Len(keys) : keys[i] \notin Params
    THEN CHOOSE i \in 1..Len(keys) :
             keys[i] \notin Params /\ \A j \in 1..(i - 1) : keys[j] \in Params
    ELSE Len(keys) + 1
\* C2: flat deserialization of a dictionary with undeclared keys: "ignore"
\* gives no warning and no error and applies every declared key; "warn" gives
\* one warning per undeclared key and applies every declared key; "raise"
\* raises at the first undeclared key and applies no key that follows it
C2_FlatMissingPolicy ==
    (op = "deserialize" /\ FlatCall /\ Ended) =>
        LET keys == Keys(inp.dict_)
            id == inp.parameterized.n
            first == FirstUndeclared(keys)
        IN  /\ on_missing = "ignore" =>
                /\ warnings = <<>>
                /\ exc.msg # "No param"
                /\ pc = "done" => NamesCalled = Declared(keys)
            /\ on_missing = "warn" =>
                /\ exc.msg # "No param"
                /\ pc = "done" =>
                     /\ [i \in 1..Len(warnings) |-> warnings[i].key] = Undeclared(keys)
                     /\ NamesCalled = Declared(keys)
            /\ on_missing = "raise" =>
                /\ warnings = <<>>
                /\ pc = "done" => (Undeclared(keys) = <<>> /\ NamesCalled = keys)
                /\ exc.msg # "convert" /\ Undeclared(keys) # <<>> =>
                     /\ pc = "raised"
                     /\ exc = Exc("ValueError", "No param", <<>>)
                     /\ NamesCalled = SubSeq(keys, 1, first - 1)
                /\ \A i \in (first + 1)..Len(keys) :
                     /\ \A j \in 1..Len(calls) : calls[j].name # keys[i]
                     /\ keys[i] \in Params => objs[id][keys[i]] = inp.objs[id][keys[i]]
\* under "warn" two undeclared keys gave two warnings and the declared key
\* between them was applied
C2_Witness ==
    /\ op = "deserialize" /\ FlatCall
    /\ Keys(inp.dict_) = <<"bogus", "integer", "zzz">>
    /\ on_missing = "warn" /\ pc = "done"
    /\ Len(warnings) = 2 /\ NamesCalled = <<"integer">>
    /\ objs[1]["integer"] = PyInt(3)

HierarchicalCall == ~IsParameterized(inp.parameterized)
KeySet(x) == {x.e[i].s : i \in 1..Len(x.e)}
\* the objects at the leaves of an object tree
RECURSIVE LeafIds(_)
LeafIds(p) ==
    IF IsParameterized(p) THEN {p.n}
    ELSE UNION {LeafIds(Get(p, k, None)) : k \in KeySet(p)}
\* the leaves of object tree p reached through keys the data tree d has too
RECURSIVE MatchedLeaves(_, _, _)
MatchedLeaves(p, d, chain) ==
    IF IsParameterized(p) THEN {[chain |-> chain, id |-> p.n, data |-> d]}
    ELSE UNION {MatchedLeaves(Get(p, k, None), Get(d, k, None), Append(chain, k)) :
                   k \in KeySet(p) \cap KeySet(d)}
\* the key chains of the object tree with no child in the data tree
RECURSIVE MissingDataChains(_, _, _)
MissingDataChains(p, d, chain) ==
    IF IsParameterized(p) THEN {}
    ELSE {Append(chain, k) : k \in KeySet(p) \ KeySet(d)}
         \cup UNION {MissingDataChains(Get(p, k, None), Get(d, k, None), Append(chain, k)) :
                        k \in KeySet(p) \cap KeySet(d)}
\* the key chains of the data tree with no node in the object tree
RECURSIVE ExtraDataChains(_, _, _)
ExtraDataChains(p, d, chain) ==
    IF IsParameterized(p) THEN {}
    ELSE {Append(chain, k) : k \in KeySet(d) \ KeySet(p)}
         \cup UNION {ExtraDataChains(Get(p, k, None), Get(d, k, None), Append(chain, k)) :
                        k \in KeySet(p) \cap KeySet(d)}
Matched == MatchedLeaves(inp.parameterized, inp.dict_, <<>>)
MissingData == MissingDataChains(inp.parameterized, inp.dict_, <<>>)
UnmatchedData == ExtraDataChains(inp.parameterized, inp.dict_, <<>>)
SkippedIds == LeafIds(inp.parameterized) \ {l.id : l \in Matched}
\* the warnings of the logger of the library: those of no object
LoggerWarnings == SelectSeq(warnings, LAMBDA x : x.obj = 0)
NamesCalledOn(id) ==
    LET cs == SelectSeq(calls, LAMBDA c : c.obj = id)
    IN  [i \in 1..Len(cs) |-> cs[i].name]

C4_PolicyForExtraData ==
    (op = "deserialize" /\ HierarchicalCall /\ Ended /\ UnmatchedData # {}) =>
        /\ on_missing = "raise" =>
              /\ pc = "raised"
              /\ LoggerWarnings = <<>>
              /\ exc.msg \notin {"convert", "No param"} =>
                    exc.type = "ValueError" /\ exc.msg = "no parameterized instance"
              /\ (\E c \in UnmatchedData : Len(c) = 1) =>
                    /\ exc.type = "ValueError" /\ exc.msg = "no parameterized instance"
                    /\ calls = <<>> /\ objs = inp.objs
        /\ on_missing = "warn" =>
              /\ exc.msg # "no parameterized instance"
              /\ pc = "done" => Len(LoggerWarnings) = Cardinality(UnmatchedData)
        /\ on_missing = "ignore" =>
              /\ exc.msg # "no parameterized instance"
              /\ LoggerWarnings = <<>>
        /\ on_missing \in {"warn", "ignore"} =>
              /\ \A id \in ObjIds \ {l.id : l \in Matched} :
                    objs[id] = inp.objs[id] /\ NamesCalledOn(id) = <<>>
              /\ \A l \in Matched :
                    /\ \A name \in Params \ KeySet(l.data) :
                          objs[l.id][name] = inp.objs[l.id][name]
                    /\ \A i \in 1..Len(NamesCalledOn(l.id)) :
                          NamesCalledOn(l.id)[i] \in KeySet(l.data)
                    /\ pc = "done" => NamesCalledOn(l.id) = Declared(Keys(l.data))
\* under "warn" the data had the chain x before the chain a: one warning
\* from the logger, and the data of a was deserialized into its object
C4_Witness ==
    /\ op = "deserialize" /\ HierarchicalCall /\ pc = "done"
    /\ on_missing = "warn"
    /\ Keys(inp.dict_) = <<"x", "a">> /\ UnmatchedData = {<<"x">>}
    /\ Len(LoggerWarnings) = 1 /\ Len(warnings) = 1
    /\ NamesCalledOn(1) = <<"integer">> /\ objs[1]["integer"] = PyInt(3)
    /\ objs[2] = inp.objs[2]

\* a flat dictionary: its keys are declared attributes and none of its
\* values is a dictionary or an object
IsFlatDict(t) ==
    /\ IsDict(t)
    /\ \A i \in 1..Len(t.e) :
          /\ t.e[i].t = "item" /\ t.e[i].s \in Params
          /\ ~IsDict(t.e[i].e[1]) /\ ~IsParameterized(t.e[i].e[1])
\* tree t has the keys of container p, in the order of p, at every internal
\* node, and a flat dictionary where p has an object
RECURSIVE SameShape(_, _)
SameShape(p, t) ==
    IF IsParameterized(p) THEN IsFlatDict(t)
    ELSE /\ IsDict(t)
         /\ Keys(t) = Keys(p)
         /\ \A k \in KeySet(p) : SameShape(Get(p, k, None), Get(t, k, None))
\* the help of a leaf documents attributes the leaf serialized, by strings
RECURSIVE HelpWithin(_, _, _)
HelpWithin(p, t, h) ==
    IF IsParameterized(p)
    THEN KeySet(h) \subseteq KeySet(t) /\ \A i \in 1..Len(h.e) : h.e[i].e[1].t = "str"
    ELSE \A k \in KeySet(p) : HelpWithin(Get(p, k, None), Get(t, k, None), Get(h, k, None))
\* C5: the tree serialize_to_dict returns for a hierarchical container has
\* the keys of the container, in the same order, at every internal node, and
\* a flat attribute dictionary in place of every object; the help dictionary
\* returned with include_help has the same keys at every internal node
C5_SameShape ==
    (op = "serialize" /\ HierarchicalCall /\ pc = "done") =>
        /\ SameShape(inp.parameterized, dict_)
        /\ SameShape(inp.parameterized, help_dict)
        /\ HelpWithin(inp.parameterized, dict_, help_dict)
        /\ ret = IF inp.include_help THEN PyTuple(<<dict_, help_dict>>) ELSE dict_
\* a container that lists b before a, serialized with its help
C5_Witness ==
    /\ op = "serialize" /\ HierarchicalCall /\ pc = "done"
    /\ inp.include_help /\ ret.t = "tuple"
    /\ Keys(inp.parameterized) = <<"b", "a">> /\ Keys(ret.e[1]) = <<"b", "a">>
    /\ Get(Get(ret.e[1], "a", None), "integer", None) = PyInt(10)
    /\ Get(Get(ret.e[1], "b", None), "integer", None) = PyInt(4)
    /\ Has(Get(ret.e[2], "b", None), "number")

\* `only` with its names in the opposite order
ReversedOnly(only) ==
    IF IsNone(only) THEN None
    ELSE PyList([i \in 1..Len(only.e) |-> only.e[Len(only.e) + 1 - i]])
\* what a call on the unmodified object returns when `only` and the
\* declared attributes are iterated in the given orders
FlatResult(only, order) ==
    _serialize_to_dict_flat(inp.parameterized.n, objs[inp.parameterized.n], only,
                            inp.name_dict, inp.type_dict, on_missing, order, <<>>, <<>>)
\* C6: the dictionary flat serialization returns for an object lists its
\* keys in sorted-name order whatever the iteration order of `only` and of
\* the declared attributes; the object is not modified, and a second call,
\* under any iteration order, returns the same keys and values
C6_SortedKeys ==
    (op = "serialize" /\ FlatCall /\ pc = "done") =>
        /\ \A i, j \in 1..Len(dict_.e) :
              i < j => Rank(dict_.e[i].s) < Rank(dict_.e[j].s)
        /\ ret = IF inp.include_help THEN PyTuple(<<dict_, help_dict>>) ELSE dict_
        /\ objs = inp.objs
        /\ \A order \in {"ascending", "descending"} :
              \A only \in {inp.only, ReversedOnly(inp.only)} :
                  /\ FlatResult(only, order).exc = NoExc
                  /\ FlatResult(only, order).dict_ = dict_
\* `only` named number before integer and the result lists integer first
C6_Witness ==
    /\ op = "serialize" /\ FlatCall /\ pc = "done"
    /\ ~IsNone(inp.only)
    /\ [i \in 1..Len(inp.only.e) |-> inp.only.e[i].s] = <<"number", "integer">>
    /\ Keys(dict_) = <<"integer", "number">>
    /\ NamesCalled = <<"number", "integer">>

\* the attributes `only` selects: every declared one but "name" when it is
\* None, else those it names that are declared
Selected(only) ==
    IF IsNone(only) THEN Params \ {"name"}
    ELSE {only.e[i].s : i \in 1..Len(only.e)} \cap Params
\* the entry of the tree `only` at a key chain, None where it has none
RECURSIVE OnlyAt(_, _)
OnlyAt(only, chain) ==
    IF chain = <<>> \/ IsNone(only) THEN only
    ELSE OnlyAt(Get(only, Head(chain), None), Tail(chain))
Leaves(p) == MatchedLeaves(p, p, <<>>)
\* C7: the flat output has exactly the attributes `only` selects, each
\* once: with `only` unset every declared attribute except "name", with
\* `only` given the names in it that are declared; in a hierarchical call
\* every leaf is filtered by the entry of `only` at the key chain of the leaf
C7_OnlySelects ==
    (op = "serialize" /\ pc = "done") =>
        \A l \in Leaves(inp.parameterized) :
            /\ KeySet(GetAt(dict_, l.chain)) = Selected(OnlyAt(inp.only, l.chain))
            /\ Len(GetAt(dict_, l.chain).e) = Cardinality(Selected(OnlyAt(inp.only, l.chain)))
\* a hierarchical call whose `only` names two attributes for leaf b and one
\* declared and one undeclared attribute for leaf a.c
C7_Witness ==
    /\ op = "serialize" /\ HierarchicalCall /\ pc = "done"
    /\ OnlyAt(inp.only, <<"a", "c">>) = PyList(<<PyStr("number"), PyStr("bogus")>>)
    /\ Keys(GetAt(dict_, <<"a", "c">>)) = <<"number">>
    /\ Keys(GetAt(dict_, <<"b">>)) = <<"integer", "string">>

\* a call that hands one raw value to the default converter of one declared
\* attribute
OneDefaultConversion ==
    /\ op = "deserialize" /\ FlatCall
    /\ IsNone(inp.name_dict) /\ IsNone(inp.type_dict)
    /\ Len(inp.dict_.e) = 1 /\ inp.dict_.e[1].s \in Params
NoneTokens == {None, PyStr("None"), PyStr("none")}
\* C8: a default deserializer given None, "None" or "none" sets an
\* attribute that allows None to None; for an attribute that does not allow
\* None it raises ParamConfigTypeError and leaves the attribute as it was
C8_NoneHandling ==
    (OneDefaultConversion /\ Ended /\ inp.dict_.e[1].e[1] \in NoneTokens) =>
        LET name == inp.dict_.e[1].s
            id == inp.parameterized.n
        IN  IF AllowNone(allow_None, name)
            THEN pc = "done" /\ objs[id][name] = None
            ELSE /\ pc = "raised" /\ exc.type = "ParamConfigTypeError"
                 /\ objs[id][name] = inp.objs[id][name]

\* C9: whatever raw value a default deserializer is given, a conversion
\* that fails raises ParamConfigTypeError and no other exception type
C9_SingleErrorType ==
    (OneDefaultConversion /\ pc = "raised" /\ exc.msg = "convert") =>
        exc.type = "ParamConfigTypeError"

ValidPolicies == {"ignore", "warn", "raise"}
\* C10: a call given a missing-key policy that is none of "ignore", "warn"
\* and "raise" reads and sets no attribute, calls no converter and does not
\* return: it ends in an error
C10_PolicyValidated ==
    on_missing \notin ValidPolicies =>
        /\ calls = <<>> /\ objs = inp.objs
        /\ pc # "done"
        /\ Ended => exc.type \in {"ValueError", "TypeError"}

\* the strings of the formats of a format argument, in list order
FormatsOf(format) ==
    IF format.t = "str" THEN <<format.s>> ELSE [i \in 1..Len(format.e) |-> format.e[i].s]
\* the string a format gives re-parses, under the format, to the datetime
RoundTrips(dt, format) ==
    /\ Strptime(Strftime(dt, format), format).exc = ""
    /\ Strptime(Strftime(dt, format), format).val = dt
\* C11: when some format of the configured list gives a string that
\* re-parses to the datetime, date serialization returns the string of the
\* first such format in list order, without a warning; with the default
\* list that is the day format at midnight, the seconds format when only
\* the seconds are not zero, the microsecond format otherwise
C11_FirstExactFormat ==
    (op = "serialize_date" /\ Ended /\ ~IsNone(inp.val) /\ ~IsNone(inp.format)) =>
        LET fs == FormatsOf(inp.format)
            exact == {i \in 1..Len(fs) : RoundTrips(inp.val, fs[i])}
            first == CHOOSE i \in exact : \A j \in exact : i <= j
        IN  /\ exact # {} =>
                /\ pc = "done" /\ warnings = <<>>
                /\ ret = PyStr(Strftime(inp.val, fs[first]))
            /\ inp.format = DEFAULT_DATE_FORMAT =>
                /\ pc = "done" /\ warnings = <<>>
                /\ ret = PyStr(Strftime(inp.val,
                             IF UsecOf(inp.val) # 0 THEN FORMAT_MICROSECONDS
                             ELSE IF SecOf(inp.val) # 0 THEN FORMAT_SECONDS
                             ELSE FORMAT_DAY))
\* the default list gave the seconds format to one second past midnight
C11_Witness ==
    /\ op = "serialize_date" /\ pc = "done"
    /\ inp.format = DEFAULT_DATE_FORMAT
    /\ inp.val = DateTime(1, 1, 0) /\ ret = PyStr("1970-01-02T00:00:01")
    /\ warnings = <<>>

\* the datetime is serialized under a format argument none of whose formats
\* gives a string that re-parses to it
NoExactFormat ==
    /\ op = "serialize_date" /\ ~IsNone(inp.val) /\ ~IsNone(inp.format)
    /\ \A i \in 1..Len(FormatsOf(inp.format)) :
          ~RoundTrips(inp.val, FormatsOf(inp.format)[i])
\* C12 as claimed: when no configured format re-parses to the datetime, date
\* serialization returns the timestamp, a number
C12_TimestampFallback ==
    (NoExactFormat /\ Ended) => (pc = "done" /\ ret = _timestamp(inp.val))
\* C12 amended: when no configured format re-parses to the datetime, date
\* serialization warns of the loss once and returns the string of the last
\* format of the list (an empty list raises UnboundLocalError after the
\* warning); the timestamp is returned when, and only when, the format
\* argument is None
C12_LastFormatFallback ==
    (op = "serialize_date" /\ Ended /\ ~IsNone(inp.val)) =>
        /\ NoExactFormat =>
              /\ Len(warnings) = 1
              /\ IF FormatsOf(inp.format) = <<>>
                 THEN pc = "raised" /\ exc.type = "UnboundLocalError"
                 ELSE /\ pc = "done"
                      /\ ret = PyStr(Strftime(inp.val,
                                   FormatsOf(inp.format)[Len(FormatsOf(inp.format))]))
        /\ IsNone(inp.format) => (pc = "done" /\ ret = _timestamp(inp.val))
        /\ ~IsNone(inp.format) /\ pc = "done" => ret.t = "str"
\* a datetime with a microsecond under the formats of the day and of the
\* second: the string of the second, which drops the microsecond
C12_Witness ==
    /\ op = "serialize_date" /\ pc = "done"
    /\ inp.format = PyTuple(<<PyStr(FORMAT_DAY), PyStr(FORMAT_SECONDS)>>)
    /\ inp.val = DateTime(0, 3661, 1)
    /\ ret = PyStr("1970-01-01T01:01:01") /\ Len(warnings) = 1

\* the call is of serialize_to_ini on a container of objects, and ended
IniContainerCall ==
    op = "serialize_to_ini" /\ Ended /\ ~IsParameterized(inp.parameterized)
\* the container holds a mapping below its top level
DeeperThanOne(p) == \E i \in 1..Len(p.e) : ~IsParameterized(p.e[i].e[1])
\* the section headers among the strings written, in the order written
SectionsWritten ==
    SelectSeq(file, LAMBDA chunk :
        \E i \in 1..Len(inp.parameterized.e) :
            chunk = "[" \o inp.parameterized.e[i].s \o "]\n")
\* C13: serialize_to_ini on a container with a mapping below its top level
\* raises and has written nothing to the file object; on a container of
\* depth exactly 1 it writes one section per top-level key, in the
\* container's key order
C13_IniDepth ==
    IniContainerCall =>
        IF DeeperThanOne(inp.parameterized)
        THEN pc = "raised" /\ file = <<>>
        ELSE /\ pc = "done"
             /\ SectionsWritten =
                    [i \in 1..Len(inp.parameterized.e) |->
                        "[" \o inp.parameterized.e[i].s \o "]\n"]

\* C18: when serialization to INI or JSON fails, nothing has been written
\* to the output
C18_NothingWrittenOnFailure ==
    (op \in {"serialize_to_ini", "serialize_to_json"} /\ pc = "raised") => file = <<>>

\* a call of one of the two YAML functions under the shipped priority list
DefaultYamlCall ==
    /\ op \in {"serialize_from_obj_to_yaml", "deserialize_from_yaml_to_obj"}
    /\ inp.priorities = YAML_MODULE_PRIORITIES

\* C14: under the shipped config.YAML_MODULE_PRIORITIES a YAML call uses the
\* first entry of the list whose module can be imported, and raises
\* ImportError, and nothing else, when no entry's module can be imported.
C14_YamlBackendSelection ==
    (DefaultYamlCall /\ pc \in {"done", "raised"}) =>
        LET Usable == {i \in 1..Len(inp.priorities) :
                           inp.priorities[i] \in inp.importable}
        IN  IF Usable = {}
            THEN pc = "raised" /\ exc.type = "ImportError"
            ELSE /\ pc = "done"
                 /\ \E i \in Usable :
                        /\ \A j \in Usable : i <= j
                        /\ ret = Module(inp.priorities[i])

\* a parse_args call that handed a list of files to a
\* ParameterizedFileReadAction and returned
FilesRead ==
    /\ op = "parse_args" /\ pc = "done" /\ inp.action # "DeserializationAction"
    /\ inp.given /\ inp.values.t = "list"
\* the value the default deserializer of attribute name assigns for block
Converted(name, block) ==
    Deserialize(SelectDeserializer(name, PyDict(<<>>), MergedDeserializerTypeDict(None)),
                TRUE, name, block).val
\* the files of the call that mention attribute name
Mentioning(name) ==
    {i \in 1..Len(inp.values.e) : Has(inp.values.e[i], name)}

\* C15: after a read action was given several files, every attribute of the
\* target holds the value of the last file that mentions it, and an
\* attribute no file mentions holds the value it had before the call.
C15_LastFileWins ==
    FilesRead =>
        \A name \in Params :
            IF Mentioning(name) = {} THEN objs[1][name] = inp.objs[1][name]
            ELSE \E i \in Mentioning(name) :
                     /\ \A j \in Mentioning(name) : j <= i
                     /\ objs[1][name] =
                            Converted(name, Get(inp.values.e[i], name, None))
\* two files give different values to integer and none mentions string, which
\* an earlier parse had changed
C15_Witness ==
    /\ FilesRead /\ Len(inp.values.e) = 2
    /\ Mentioning("integer") = {1, 2} /\ Mentioning("string") = {}
    /\ Converted("integer", Get(inp.values.e[1], "integer", None)) # objs[1]["integer"]
    /\ objs[1]["string"] # FreshObjs[1]["string"]

\* a parse_args call without the flag of a ParameterizedFileReadAction
ParsedWithoutFlag ==
    /\ op = "parse_args" /\ pc = "done" /\ inp.action # "DeserializationAction"
    /\ ~inp.given

\* C16 as stated: in every parse without the read flag, also one that follows
\* parses with the flag, the namespace holds the target in its initial state.
C16_DefaultIsInitialState ==
    ParsedWithoutFlag => ret = Obj(1) /\ objs = FreshObjs
\* C16: in every parse without the read flag the namespace holds the target,
\* in the state it had before the parse; that is the initial state as long as
\* no parse of the parser has had the flag.
C16_DefaultIsSharedTarget ==
    ParsedWithoutFlag =>
        /\ ret = Obj(1)
        /\ objs = inp.objs
        /\ ~inp.flagged => objs = FreshObjs
\* a parse without the flag after a parse with the flag that changed the target
C16_Witness ==
    ParsedWithoutFlag /\ inp.flagged /\ objs[1] # FreshObjs[1]

\* C17: a conversion error while a read action, of either family,
\* deserializes a file ends parse_args with the parser's exit, never with the
\* conversion exception.
C17_ConversionErrorIsParseError ==
    (op = "parse_args" /\ pc = "raised" /\ exc.msg \in {"convert", "error deserializing"})
        => exc.type = "SystemExit"

\* suggest_param_dict returned
SuggestReturned == op = "suggest_param_dict" /\ pc = "done"
\* the class of an object of the container or of its copy
ClassOf(id) == inp.classes[IF id > 2 THEN id - 2 ELSE id]
\* the tunable nodes of a container: the object and its dotted path plus "."
RECURSIVE NodesOf(_, _, _)
NodesOf(tree, path, top) ==
    UNION {LET dotted == IF top THEN tree.e[i].s ELSE path \o "." \o tree.e[i].s
               value == tree.e[i].e[1]
           IN  IF IsParameterized(value) THEN {[obj |-> value.n, prefix |-> dotted \o "."]}
               ELSE IF IsDict(value) THEN NodesOf(value, dotted, FALSE)
               ELSE {} : i \in 1..Len(tree.e)}
\* the keys of a container, at every depth
RECURSIVE KeysOf(_)
KeysOf(tree) ==
    UNION {{tree.e[i].s} \cup (IF IsDict(tree.e[i].e[1]) THEN KeysOf(tree.e[i].e[1]) ELSE {}) :
           i \in 1..Len(tree.e)}
\* the names asked for: `only`, or every tunable name of the container
Requested ==
    IF inp.only.given THEN inp.only.names
    ELSE UNION {{n.prefix \o x : x \in get_tunable(ClassOf(n.obj))} :
                n \in NodesOf(inp.global_dict, "", TRUE)}
\* the dotted names the suggest_params calls were given
Consumed == UNION {{calls[i].prefix \o x : x \in calls[i].only} : i \in 1..Len(calls)}
\* the warning about names of `only` left over was issued
ExtraWarned == \E i \in 1..Len(warnings) : warnings[i].key = "extra parameters"
\* every tunable node of the copy got exactly one suggest_params call, with
\* its prefix and the requested names under that prefix that it can tune;
\* the warning was issued exactly if asked for and a name was not consumed
SuggestedAsRequested ==
    /\ \A n \in NodesOf(ret, "", TRUE) :
           \E i \in 1..Len(calls) :
               /\ calls[i] = [obj |-> n.obj, prefix |-> n.prefix,
                              only |-> {x \in get_tunable(ClassOf(n.obj)) :
                                            n.prefix \o x \in Requested}]
               /\ \A j \in 1..Len(calls) :
                      (calls[j].obj = n.obj /\ calls[j].prefix = n.prefix) => j = i
    /\ Len(calls) = Cardinality(NodesOf(ret, "", TRUE))
    /\ ExtraWarned <=> (inp.warn /\ Requested \ Consumed # {})
\* no key of the container is empty or holds a '.', no tunable name holds one
PlainNames ==
    /\ \A key \in KeysOf(inp.global_dict) : key # "" /\ ~HasDot(key)
    /\ \A n \in NodesOf(inp.global_dict, "", TRUE) :
           \A x \in get_tunable(ClassOf(n.obj)) : ~HasDot(x)

\* C19 as stated: suggest_param_dict calls suggest_params exactly once on
\* every tunable node of the copy, with the requested names under the node's
\* dotted prefix that the node can tune, and warns exactly if some requested
\* name was consumed by no node.
C19_SuggestOncePerNode == SuggestReturned => SuggestedAsRequested
\* C19: the same, for a container none of whose keys is empty or holds a '.'
\* and none of whose tunable names holds a '.'.
C19_SuggestOncePerPlainNode == (SuggestReturned /\ PlainNames) => SuggestedAsRequested
\* two nodes, one of them given a name, and a requested name left over
C19_Witness ==
    /\ SuggestReturned /\ PlainNames /\ inp.only.given /\ Len(calls) = 2
    /\ \E i \in 1..Len(calls) : calls[i].only # {}
    /\ ExtraWarned

\* C20: suggest_param_dict leaves the objects of global_dict and the caller's
\* `only` as they were: the suggestions go to the copies.
C20_InputsUntouched ==
    (op = "suggest_param_dict" /\ pc \in {"done", "raised"}) =>
        /\ \A n \in NodesOf(inp.global_dict, "", TRUE) :
               objs[n.obj] = [foo |-> PyBool(FALSE), bar |-> PyBool(FALSE)]
        /\ objs[0].names = inp.only.names
\* a call that consumed one of the caller's names and changed a copy
C20_Witness ==
    /\ SuggestReturned /\ inp.only.given
    /\ inp.only.names \cap Consumed # {}
    /\ \E n \in NodesOf(ret, "", TRUE) : objs[n.obj].foo = PyBool(TRUE)

\* a finished flat deserialization of a dictionary
FlatDeserialized ==
    op = "deserialize" /\ FlatCall /\ Ended /\ IsDict(inp.dict_)
\* the orders in which n keys can be iterated
Orders(n) == {f \in [1..n -> 1..n] : \A i, j \in 1..n : f[i] = f[j] => i = j}
\* the outcome of the same call had the dictionary's keys come in order f
Reordered(f) ==
    _deserialize_from_dict_flat(
        PyDict([i \in 1..Len(inp.dict_.e) |-> inp.dict_.e[f[i]]]),
        inp.parameterized.n, allow_None, inp.name_dict, inp.type_dict, on_missing,
        [objs |-> inp.objs, warnings |-> <<>>, calls |-> <<>>, exc |-> NoExc])

\* C23 as stated: the final value of every attribute, and whether the call
\* raised, are the same for every order of the dictionary's keys.
C23_OrderIndependent ==
    FlatDeserialized =>
        \A f \in Orders(Len(inp.dict_.e)) :
            LET Same(r) == r.objs = objs /\ (r.exc = NoExc <=> pc = "done")
            IN  Same(Reordered(f))
\* C23: whether the call raises is the same for every order of the keys, and
\* a call that returns leaves the same value in every attribute for every
\* order; a call that raises has assigned the keys that came before the
\* failing one.
C23_OrderIndependentWhenReturned ==
    FlatDeserialized =>
        \A f \in Orders(Len(inp.dict_.e)) :
            LET Same(r) == /\ r.exc = NoExc <=> pc = "done"
                           /\ pc = "done" => r.objs = objs
            IN  Same(Reordered(f))
\* a call that returned after it assigned two attributes
C23_Witness ==
    /\ FlatDeserialized /\ pc = "done" /\ Len(inp.dict_.e) >= 2
    /\ Cardinality({name \in Params :
                       objs[inp.parameterized.n][name] #
                           inp.objs[inp.parameterized.n][name]}) >= 2

\* path is a chain of keys of tree, from its root
RECURSIVE IsPath(_, _)
IsPath(tree, path) ==
    \/ path = <<>>
    \/ /\ IsDict(tree) /\ Has(tree, Head(path))
       /\ IsPath(Get(tree, Head(path), None), Tail(path))

\* C30: the key chain of every 'no parameterized instance to match' warning
\* or error of deserialize_from_dict is the path, from the root of the data
\* tree, of a key the container has no object for.
C30_KeyChainIsPath ==
    (op = "deserialize" /\ HierarchicalCall) =>
        /\ \A i \in 1..Len(LoggerWarnings) :
               /\ IsPath(inp.dict_, LoggerWarnings[i].chain)
               /\ ~IsPath(inp.parameterized, LoggerWarnings[i].chain)
        /\ exc.msg = "no parameterized instance" =>
               /\ IsPath(inp.dict_, exc.chain)
               /\ ~IsPath(inp.parameterized, exc.chain)

(***************************************************************************)
(* C24: the order in which the leaves of a hierarchy are converted.        *)
(***************************************************************************)
\* the leaves in the order a work list of <<data, object>> pairs reaches
\* them: taken from the end of the list (lifo) or from its front, the
\* children of a node added in the order of the keys of its data
RECURSIVE LeafOrder(_, _)
LeafOrder(work, lifo) ==
    IF work = <<>> THEN <<>>
    ELSE LET k == IF lifo THEN Len(work) ELSE 1
             rest == IF lifo THEN Front(work) ELSE Tail(work)
             d == work[k][1]
             p == work[k][2]
             names == IF IsDict(d) THEN SelectSeq(Keys(d), LAMBDA x : Has(p, x)) ELSE <<>>
         IN  IF IsParameterized(p) THEN <<p.n>> \o LeafOrder(rest, lifo)
             ELSE LeafOrder(rest \o [i \in 1..Len(names) |->
                                        <<Get(d, names[i], None), Get(p, names[i], None)>>],
                            lifo)
\* the calls of converters go through the objects in the order of leaves
ConvertedInOrder(leaves) ==
    LET Pos(id) == CHOOSE i \in 1..Len(leaves) : leaves[i] = id
    IN  /\ \A i \in 1..Len(calls) : \E j \in 1..Len(leaves) : leaves[j] = calls[i].obj
        /\ \A i, j \in 1..Len(calls) :
               (i < j /\ calls[i].obj # calls[j].obj) => Pos(calls[i].obj) < Pos(calls[j].obj)
RECURSIVE PathsTo(_, _)
PathsTo(tree, id) ==
    IF IsParameterized(tree) THEN (IF tree.n = id THEN {<<>>} ELSE {})
    ELSE IF ~IsDict(tree) THEN {}
    ELSE UNION {{<<tree.e[i].s>> \o q : q \in PathsTo(tree.e[i].e[1], id)} :
                   i \in 1..Len(tree.e)}
\* the maps met going down a hierarchical override map m along a key
\* chain: m, then what each map holds under the next key (an empty map
\* when it does not hold the key)
RECURSIVE MapsAlong(_, _)
MapsAlong(m, path) ==
    IF path = <<>> THEN <<m>>
    ELSE <<m>> \o MapsAlong(IF IsDict(m) THEN Get(m, Head(path), PyDict(<<>>)) ELSE m,
                            Tail(path))
\* the converter a map holds under kind k, "" when it holds none
UnderKind(m, k) ==
    IF IsDict(m) /\ \E i \in 1..Len(m.e) : m.e[i].t = "kitem" /\ m.e[i].s = k
    THEN m.e[CHOOSE i \in 1..Len(m.e) : m.e[i].t = "kitem" /\ m.e[i].s = k].e[1].s
    ELSE ""
\* for every kind the leaf receives the entry of the deepest map of the
\* chain that has one, and none when no map has one
DeepestKindEntries(given, maps) ==
    \A k \in {KindOf(a) : a \in Params} :
        LET having == {j \in 1..Len(maps) : UnderKind(maps[j], k) # ""}
        IN  UnderKind(given, k) =
                IF having = {} THEN ""
                ELSE UnderKind(maps[CHOOSE j \in having : \A l \in having : l <= j], k)
\* a hierarchical call given type overrides
TypeOverridesCall ==
    /\ op \in {"serialize", "deserialize"}
    /\ HierarchicalCall
    /\ ~IsNone(inp.type_dict)
\* C25 as stated: at every leaf of a hierarchy the kind-keyed entries of
\* every map on the way down apply, those under a path segment only inside
\* the child of that name, the deeper one winning for the same kind
C25_TypeOverridesPropagate ==
    TypeOverridesCall =>
        \A i \in 1..Len(calls) :
            \A path \in PathsTo(inp.parameterized, calls[i].obj) :
                DeepestKindEntries(calls[i].type_dict, MapsAlong(inp.type_dict, path))
\* C25 amended: the same, unless a map on the way down holds None under
\* the name of the child: then the leaves below receive no type overrides
C25_TypeOverridesPropagateUnlessNone ==
    TypeOverridesCall =>
        \A i \in 1..Len(calls) :
            \A path \in PathsTo(inp.parameterized, calls[i].obj) :
                LET Same(maps) ==
                        IF \E j \in 1..Len(maps) : IsNone(maps[j])
                        THEN IsNone(calls[i].type_dict)
                        ELSE /\ IsDict(calls[i].type_dict)
                             /\ DeepestKindEntries(calls[i].type_dict, maps)
                IN  Same(MapsAlong(inp.type_dict, path))
\* a leaf below a path segment converted with the entry of its own branch
\* for a kind the root has an entry for too
C25_Witness ==
    /\ TypeOverridesCall /\ pc = "done"
    /\ \E i \in 1..Len(calls) :
           \E path \in PathsTo(inp.parameterized, calls[i].obj) :
               /\ UnderKind(inp.type_dict, KindOf(calls[i].name)) # ""
               /\ UnderKind(Get(inp.type_dict, path[1], None), KindOf(calls[i].name))
                      = calls[i].conv
               /\ calls[i].conv # UnderKind(inp.type_dict, KindOf(calls[i].name))

(***************************************************************************)
(* C26, C27: the date deserializers.                                       *)
(***************************************************************************)
\* what DefaultDateDeserializer gives for each element of the block alone
EachAlone ==
    [i \in 1..Len(inp.block.e) |->
        DefaultDateDeserializer(inp.format, allow_None, "date", inp.block.e[i], inp.numpy)]
\* a pair of datetimes in order was given to DefaultDateRangeDeserializer,
\* and DefaultDateDeserializer converts each element alone
EachAloneSucceeds ==
    /\ op = "deserialize_date_range" /\ Ended
    /\ inp.block.t = "tuple" /\ Len(inp.block.e) = 2
    /\ \A i \in 1..2 : EachAlone[i].exc = "" /\ ~IsNone(EachAlone[i].val)
    /\ \A i \in 1..2 : EachAlone[i].val.t = "datetime" =>
           \A j \in 1..2 : (i < j /\ EachAlone[j].val.t = "datetime") =>
               <<DayOf(EachAlone[i].val), SecOf(EachAlone[i].val), UsecOf(EachAlone[i].val)>>
                   = <<DayOf(EachAlone[j].val), SecOf(EachAlone[j].val),
                       UsecOf(EachAlone[j].val)>>
               \/ DayOf(EachAlone[i].val) < DayOf(EachAlone[j].val)
               \/ /\ DayOf(EachAlone[i].val) = DayOf(EachAlone[j].val)
                  /\ SecOf(EachAlone[i].val) < SecOf(EachAlone[j].val)
               \/ /\ DayOf(EachAlone[i].val) = DayOf(EachAlone[j].val)
                  /\ SecOf(EachAlone[i].val) = SecOf(EachAlone[j].val)
                  /\ UsecOf(EachAlone[i].val) < UsecOf(EachAlone[j].val)
\* C26: whenever DefaultDateDeserializer converts each element of a pair
\* alone, DefaultDateRangeDeserializer converts the pair, to the tuple of
\* the values it gives for the elements
C26_RangeAsDatePerElement ==
    EachAloneSucceeds =>
        /\ pc = "done"
        /\ ret = PyTuple([i \in 1..2 |-> EachAlone[i].val])
\* C27: a naive datetime written as its timestamp by DefaultDateSerializer
\* with format None is read back as itself by DefaultDateDeserializer
C27_TimestampRoundTrip ==
    (op = "deserialize_date" /\ Ended) =>
        \A dt \in DateTimes :
            inp.block = DefaultDateSerializer(None, dt).val => (pc = "done" /\ ret = dt)

(***************************************************************************)
(* C28: the array deserializer of INI files.                               *)
(***************************************************************************)
\* C28: JsonStringArrayDeserializer hands a string ending in ".npy"
\* untouched to DefaultArrayDeserializer, and any other string decoded
\* from JSON
C28_NpyPathUntouched ==
    (op = "deserialize_array" /\ Ended /\ inp.block.t = "str") =>
        LET Same(r) == /\ pc = (IF r.exc = "" THEN "done" ELSE "raised")
                       /\ ret = r.val
                       /\ exc.type = r.exc
            decoded == JsonLoads(inp.block.s)
        IN  IF Len(SplitDot(inp.block.s)) > 1 /\ Last(SplitDot(inp.block.s)) = "npy"
            THEN Same(DefaultArrayDeserializer(allow_None, "array", inp.block, inp.readable))
            ELSE IF decoded.exc # "" THEN pc = "raised" /\ exc.type = "ParamConfigTypeError"
            ELSE Same(DefaultArrayDeserializer(allow_None, "array", decoded.val,
                                               inp.readable))

(***************************************************************************)
(* C21: membership in TunableParameterized.                                *)
(***************************************************************************)
\* the classes TunableParameterized.register had added when call i was made
RegisteredBefore(i) ==
    {ret[j].class_ : j \in {k \in 1..(i - 1) :
        ret[k].function = "register" /\ ret[k].returned = ret[k].class_}}
\* C defines both methods, itself or through a base class
DefinesBoth(C) ==
    \A method \in {"get_tunable", "suggest_params"} :
        \E i \in 1..Len(Mro(C)) : method \in ClassDict(Mro(C)[i])
\* C is one of the classes bases or a subclass of one of them
SubclassOfAny(C, bases) == \E i \in 1..Len(Mro(C)) : Mro(C)[i] \in bases
\* C21: isinstance and issubclass against TunableParameterized are true
\* for exactly the classes that define both get_tunable and
\* suggest_params, inherit from TunableParameterized, or are or subclass a
\* class registered before the check, whatever the checks made earlier
C21_StructuralMembership ==
    op = "abc" =>
        \A i \in 1..Len(ret) :
            ret[i].function \in {"issubclass", "isinstance"} =>
                ret[i].returned =
                    (\/ DefinesBoth(ret[i].class_)
                     \/ SubclassOfAny(ret[i].class_, {"TunableParameterized"})
                     \/ SubclassOfAny(ret[i].class_, RegisteredBefore(i)))
\* a check of a class answered False, the class was then registered, and
\* a later check of it answered True
C21_Witness ==
    /\ op = "abc"
    /\ \E i, j, k \in 1..Len(ret) :
           /\ i < j /\ j < k
           /\ ret[i].class_ = ret[j].class_ /\ ret[j].class_ = ret[k].class_
           /\ ret[i].function \in {"issubclass", "isinstance"} /\ ret[i].returned = FALSE
           /\ ret[j].function = "register"
           /\ ret[k].function \in {"issubclass", "isinstance"} /\ ret[k].returned = TRUE

(***************************************************************************)
(* C22: source files combined with --nested.                               *)
(***************************************************************************)
\* the key paths of a tree of dictionaries
RECURSIVE PathsIn(_)
PathsIn(tree) ==
    IF ~IsDict(tree) THEN {}
    ELSE UNION {{<<tree.e[i].s>>} \cup {<<tree.e[i].s>> \o q : q \in PathsIn(tree.e[i].e[1])} :
                   i \in 1..Len(tree.e)}
\* dictionaries combined with --nested, the call ended
NestedCombination ==
    /\ op = "combine_json_files" /\ Ended
    /\ inp.nested
    /\ \A i \in 1..Len(inp.vals) : IsDict(inp.vals[i])
\* source l holds something other than a dictionary at a key path that
\* path goes through or ends at
CutBy(l, path) ==
    \E k \in 1..Len(path) :
        /\ SubSeq(path, 1, k) \in PathsIn(inp.vals[l])
        /\ ~IsDict(GetAt(inp.vals[l], SubSeq(path, 1, k)))
\* the sources whose dictionary at path is part of the result: no later
\* source cuts the path
Contributors(path) ==
    {j \in 1..Len(inp.vals) :
        /\ path = <<>> \/ path \in PathsIn(inp.vals[j])
        /\ IsDict(GetAt(inp.vals[j], path))
        /\ \A l \in (j + 1)..Len(inp.vals) : ~CutBy(l, path)}
\* the keys the contributors up to source j hold at path, in the order of
\* their first appearance
RECURSIVE FirstAppearance(_, _)
FirstAppearance(j, path) ==
    IF j = 0 THEN <<>>
    ELSE LET Then(before) ==
                 IF j \in Contributors(path)
                 THEN before \o SelectSeq(Keys(GetAt(inp.vals[j], path)),
                                          LAMBDA k : \A i \in 1..Len(before) : before[i] # k)
                 ELSE before
         IN  Then(FirstAppearance(j - 1, path))
\* at every key path of the result: the value of the last source that has
\* the path when that is no dictionary, and otherwise a dictionary of the
\* keys of the contributors in the order of their first appearance
MergedByPath ==
    /\ pc = "done"
    /\ Len(inp.vals) = 1 => ret = inp.vals[1]
    /\ \A path \in {<<>>} \cup PathsIn(ret) :
           LET having == {i \in 1..Len(inp.vals) : path \in PathsIn(inp.vals[i])}
               last == CHOOSE i \in having : \A j \in having : j <= i
           IN  /\ path = <<>> \/ having # {}
               /\ IF path # <<>> /\ ~IsDict(GetAt(inp.vals[last], path))
                  THEN GetAt(ret, path) = GetAt(inp.vals[last], path)
                  ELSE /\ IsDict(GetAt(ret, path))
                       /\ Keys(GetAt(ret, path)) = FirstAppearance(Len(inp.vals), path)
\* C22 as stated: with --nested the result has every key path of every
\* source, dictionaries that collide are merged recursively, any other
\* collision gives the later value, keys keep the order of their first
\* appearance, and one source alone is returned unchanged
C22_NestedKeepsEveryPath ==
    NestedCombination =>
        /\ MergedByPath
        /\ \A i \in 1..Len(inp.vals) : PathsIn(inp.vals[i]) \subseteq PathsIn(ret)
\* C22 amended: the same, but the result has a key path of a source only
\* when no later source holds something other than a dictionary at that
\* path or at a prefix of it: such a value replaces the earlier dictionary
\* with all its keys
C22_NestedMerge ==
    NestedCombination =>
        /\ MergedByPath
        /\ \A i \in 1..Len(inp.vals) : \A path \in PathsIn(inp.vals[i]) :
               (\A l \in (i + 1)..Len(inp.vals) :
                    ~CutBy(l, SubSeq(path, 1, Len(path) - 1)))
                   => path \in PathsIn(ret)
\* two dictionaries that collide were merged: a key of the earlier that the
\* later has not persists beside a key only the later has
C22_Witness ==
    /\ NestedCombination /\ pc = "done"
    /\ \E path \in PathsIn(ret) :
           /\ Cardinality(Contributors(path)) >= 2
           /\ \E j \in Contributors(path) :
                  \E k \in 1..Len(Keys(GetAt(inp.vals[j], path))) :
                      \A l \in Contributors(path) \ {j} :
                          ~Has(GetAt(inp.vals[l], path), Keys(GetAt(inp.vals[j], path))[k])

(***************************************************************************)
(* C29: the nested filter keeps the names requested.                       *)
(***************************************************************************)
\* the key chain a dotted name stands for
KeyChain(name) ==
    CASE name = "a.b" -> <<"a", "b">>
      [] name = "a.c" -> <<"a", "c">>
      [] name = "a.b.c" -> <<"a", "b", "c">>
      [] name = "a.b.d" -> <<"a", "b", "d">>
      [] name = "b.c.d" -> <<"b", "c", "d">>
      [] OTHER -> <<name>>
\* the filter has the key chain, or None at the start of it: None under a
\* key keeps everything below the key
Kept(filter, chain) ==
    \E k \in 1..Len(chain) :
        /\ SubSeq(chain, 1, k) \in PathsIn(filter)
        /\ k = Len(chain) \/ IsNone(GetAt(filter, SubSeq(chain, 1, k)))
\* C29: the filter nest_subsets returns keeps the key chain of every name
\* of subset, in whatever order the names are visited and whatever
\* prefixes they share
C29_EveryRequestedPath ==
    (op = "nest_subsets" /\ pc = "done" /\ ~IsNone(inp.subset)) =>
        \A i \in 1..Len(inp.subset.e) : Kept(ret, KeyChain(inp.subset.e[i]))

====
